---- MODULE Spec2Model ----
(***************************************************************************)
(* Food lookup and nutrient aggregation: the FoodSelect search box, the    *)
(* AddExtraMealModal search / meal builder.                                *)
(*                                                                         *)
(* Text is a sequence of characters; a character is a one-character string *)
(* (the combining acute accent, which has no printable form, is the token  *)
(* "U+0301").                                                              *)
(***************************************************************************)
EXTENDS Integers, Sequences, FiniteSets, TLC

VARIABLES
  \* the search as a function: query, rows, FoodSelect's and the modal's output
  fnQuery, fnData, fnFS, fnAM,
  \* FoodSelect: React state
  fsSearchTerm, fsFoods, fsLoading, fsSelectedFood, fsHighlightedIndex, fsIsOpen,
  \* FoodSelect: the debounce timer, the fetches in flight, and the time for
  \* which searchTerm has not changed
  fsTimer, fsPending, fsQuiet,
  \* AddExtraMealModal: the isOpen prop and the React state
  amIsOpen, amMealName, amFoods, amSearchTerm, amSearchResults, amLoading,
  amSelectedFood, amQuantity,
  \* AddExtraMealModal: the fetches in flight, the time for which the search
  \* input has not changed, and the meal handed to onAdd since the modal was
  \* last shown
  amPending, amQuiet, amAdded,
  \* parseBrazilianNumber on its own: the value given and the value returned
  pbValue, pbOut,
  \* one item rescaled to 200 g and back: the step reached, the item, the item
  \* before the rescaling and the text that set its quantity
  rsStep, rsItem, rsOriginal, rsQtyText,
  \* mealTotals on its own: an item list, a reordering of it, and the totals of
  \* the two
  mtFoods, mtOrder, mtOut,
  \* usePageData: the props userId and location.key, the state, the refs
  upUserId, upLocationKey, upIsInitialLoading, upIsMounted, upLastFetchTime,
  upIsFetching,
  \* usePageData: Date.now(), the fetchData calls in flight, and the last
  \* trigger with what it led to
  upNow, upInFlight, upLast,
  \* FoodLibraryManager: whether its mount effect has run, and the React state
  flMounted, flFoods, flLoading, flShowModal, flEditingFood, flSaving,
  flFormData,
  \* FoodLibraryManager: the requests to tabela_taco in flight and the last
  \* alert shown
  flInFlight, flAlert

(***************************************************************************)
(* Bounds of the model.                                                    *)
(***************************************************************************)
\* longest query text drawn for the pure search function
MaxQueryLen == 3
\* most candidate rows handed to the pure search function
MaxRows == 3
\* most fetches of one component in flight at a time
MaxPending == 2
\* most items in the meal being built
MaxItems == 2
\* rows of the large reference table
BigRows == 40
\* time that passes in one step of the clock
TickMs == 100
\* time that passes in one step of the clock of usePageData
UpTickMs == 1000
\* steps of the clock of usePageData
MaxUpTicks == 5
\* navigations to the page
MaxNavigations == 2

(***************************************************************************)
(* JavaScript string primitives used by the source.                        *)
(***************************************************************************)
COMBINING_ACUTE == "U+0301"

\* String.prototype.toLowerCase, per character
LowerChar(c) ==
  CASE c = "A" -> "a"
    [] c = "B" -> "b"
    [] c = "Á" -> "á"
    [] OTHER -> c

\* String.prototype.normalize('NFD'), per character: canonical decomposition
NFDChar(c) ==
  CASE c = "á" -> <<"a", COMBINING_ACUTE>>
    [] c = "Á" -> <<"A", COMBINING_ACUTE>>
    [] OTHER -> <<c>>

\* the character class [\u0300-\u036f] (combining diacritical marks)
IsCombiningMark(c) == c = COMBINING_ACUTE

\* the character class \s
IsSpace(c) == c = " "

toLowerCase(s) == [i \in 1..Len(s) |-> LowerChar(s[i])]

RECURSIVE normalizeNFD(_)
\* String.prototype.normalize('NFD')
normalizeNFD(s) ==
  IF s = <<>> THEN <<>> ELSE NFDChar(Head(s)) \o normalizeNFD(Tail(s))

\* .replace(/[\u0300-\u036f]/g, '')
removeMarks(s) == SelectSeq(s, LAMBDA c : ~IsCombiningMark(c))

\* .replace(/,/g, ' ')
commasToSpaces(s) == [i \in 1..Len(s) |-> IF s[i] = "," THEN " " ELSE s[i]]

RECURSIVE trimStart(_)
trimStart(s) ==
  IF s # <<>> /\ IsSpace(Head(s)) THEN trimStart(Tail(s)) ELSE s

RECURSIVE trimEnd(_)
trimEnd(s) ==
  IF s # <<>> /\ IsSpace(s[Len(s)]) THEN trimEnd(SubSeq(s, 1, Len(s) - 1)) ELSE s

\* String.prototype.trim
trim(s) == trimEnd(trimStart(s))

\* normalizeText of FoodSelect
normalizeText(text) ==
  trim(commasToSpaces(removeMarks(normalizeNFD(toLowerCase(text)))))

\* normalizeText of AddExtraMealModal (a second copy of the same function)
normalizeTextModal(text) ==
  trim(commasToSpaces(removeMarks(normalizeNFD(toLowerCase(text)))))

RECURSIVE SplitFrom(_, _, _)
\* split(/\s+/): cur is the piece being read, inGap tells that the last
\* character read was white space (a run of white space is one separator)
SplitFrom(s, cur, inGap) ==
  IF s = <<>> THEN <<cur>>
  ELSE IF IsSpace(Head(s))
       THEN IF inGap THEN SplitFrom(Tail(s), cur, TRUE)
            ELSE <<cur>> \o SplitFrom(Tail(s), <<>>, TRUE)
       ELSE SplitFrom(Tail(s), Append(cur, Head(s)), FALSE)

\* String.prototype.split(/\s+/)
splitWhitespace(s) == SplitFrom(s, <<>>, FALSE)

\* .split(/\s+/).filter(w => w.length > 0)
searchWordsOf(normalized) ==
  SelectSeq(splitWhitespace(normalized), LAMBDA w : Len(w) > 0)

\* String.prototype.startsWith
startsWith(s, prefix) ==
  Len(prefix) <= Len(s) /\ SubSeq(s, 1, Len(prefix)) = prefix

RECURSIVE includes(_, _)
\* String.prototype.includes: scan s for word from the left
includes(s, word) ==
  IF startsWith(s, word) THEN TRUE
  ELSE IF s = <<>> THEN FALSE
  ELSE includes(Tail(s), word)

\* collation weight of a character of a normalized name: white space, then
\* digits, then letters
CharRank(c) ==
  CASE c = " " -> 0
    [] c = "0" -> 1 [] c = "1" -> 2 [] c = "2" -> 3 [] c = "3" -> 4
    [] c = "4" -> 5 [] c = "5" -> 6 [] c = "6" -> 7 [] c = "7" -> 8
    [] c = "8" -> 9 [] c = "9" -> 10
    [] c = "a" -> 11
    [] c = "b" -> 12
    [] c = "c" -> 13
    [] OTHER -> 14

RECURSIVE localeCompare(_, _)
\* String.prototype.localeCompare on normalized names: -1, 0 or 1
localeCompare(a, b) ==
  IF a = <<>> THEN (IF b = <<>> THEN 0 ELSE -1)
  ELSE IF b = <<>> THEN 1
  ELSE IF CharRank(Head(a)) < CharRank(Head(b)) THEN -1
  ELSE IF CharRank(Head(a)) > CharRank(Head(b)) THEN 1
  ELSE localeCompare(Tail(a), Tail(b))

\* Array.prototype.slice(0, n)
slice0(list, n) == SubSeq(list, 1, IF Len(list) < n THEN Len(list) ELSE n)

(***************************************************************************)
(* JavaScript numbers.  A finite number is the reduced fraction n/d (binary *)
(* floating-point rounding error is not modelled); NaN and the infinities  *)
(* are values of their own.                                                *)
(***************************************************************************)
RECURSIVE Gcd(_, _)
Gcd(a, b) == IF b = 0 THEN a ELSE Gcd(b, a % b)

Abs(x) == IF x < 0 THEN -x ELSE x

\* the finite number n/d, d # 0, in lowest terms with a positive denominator
Num(n, d) ==
  LET g == Gcd(Abs(n), Abs(d))
      sgn == IF d < 0 THEN -1 ELSE 1
  IN  [k |-> "num", n |-> sgn * (n \div g), d |-> sgn * (d \div g)]

NaN == [k |-> "NaN", n |-> 0, d |-> 1]

\* Infinity (sign 1) and -Infinity (sign -1)
Infinity(sign) == [k |-> "Inf", n |-> sign, d |-> 1]

Int2Num(i) == Num(i, 1)

Sign(x) == IF x.n < 0 THEN -1 ELSE IF x.n > 0 THEN 1 ELSE 0

\* Number.isFinite
IsFinite(x) == x.k = "num"

\* a * b
NumMul(a, b) ==
  IF a.k = "NaN" \/ b.k = "NaN" THEN NaN
  ELSE IF a.k = "Inf" \/ b.k = "Inf"
       THEN IF Sign(a) * Sign(b) = 0 THEN NaN ELSE Infinity(Sign(a) * Sign(b))
       ELSE Num(a.n * b.n, a.d * b.d)

\* a / b
NumDiv(a, b) ==
  IF a.k = "NaN" \/ b.k = "NaN" THEN NaN
  ELSE IF a.k = "Inf"
       THEN IF b.k = "Inf" THEN NaN
            ELSE Infinity(IF Sign(b) < 0 THEN -Sign(a) ELSE Sign(a))
  ELSE IF b.k = "Inf" THEN Int2Num(0)
  ELSE IF b.n = 0
       THEN IF a.n = 0 THEN NaN ELSE Infinity(Sign(a))
       ELSE Num(a.n * b.d, a.d * b.n)

\* a + b
NumAdd(a, b) ==
  IF a.k = "NaN" \/ b.k = "NaN" THEN NaN
  ELSE IF a.k = "Inf"
       THEN IF b.k = "Inf" /\ Sign(a) # Sign(b) THEN NaN ELSE a
  ELSE IF b.k = "Inf" THEN b
  ELSE Num(a.n * b.d + b.n * a.d, a.d * b.d)

(***************************************************************************)
(* Addition of IEEE 754 doubles.  The values added are item nutrients,     *)
(* which are not negative and are the doubles nearest to a number of       *)
(* tenths.  A double is written t / 10 + e * Unit with Unit = 2^-60 / 10;  *)
(* a sum is the exact sum rounded to the nearest double of its binade,     *)
(* ties to the even one.  A number record Num(n, d) stands for the double  *)
(* nearest to n / d; a double that is not the nearest one to its tenth     *)
(* carries the difference in the field err.                                *)
(***************************************************************************)
RECURSIVE Pow2(_)
Pow2(e) == IF e = 0 THEN 1 ELSE 2 * Pow2(e - 1)

\* 2^e modulo 20, for e >= 2
Pow2Mod20(e) ==
  CASE e % 4 = 2 -> 4 [] e % 4 = 3 -> 8 [] e % 4 = 0 -> 16 [] e % 4 = 1 -> 12

\* the binary exponents of the values added: 2^-4 <= value < 2^17
Binades == -4..16

\* the binade of t / 10 + e * Unit, for t > 0
Binade(t, e) ==
  LET j == CHOOSE b \in Binades :
             Pow2(b + 4) * 10 <= 16 * t /\ 16 * t < Pow2(b + 5) * 10
  IN  IF 16 * t = Pow2(j + 4) * 10 /\ e < 0 THEN j - 1 ELSE j

\* e' with t / 10 + e' * Unit the double nearest to t / 10 + e * Unit
RoundErr(t, e) ==
  LET j == Binade(t, e)
      ulp == 10 * Pow2(j + 8)
      base == Pow2(j + 8) * (((t % 20) * Pow2Mod20(52 - j)) % 20)
      twice == (((base + e) % (2 * ulp)) + 2 * ulp) % (2 * ulp)
      rest == twice % ulp
  IN  IF 2 * rest < ulp THEN e - rest
      ELSE IF 2 * rest > ulp THEN e + ulp - rest
      ELSE IF twice >= ulp THEN e + ulp - rest ELSE e - rest

\* the double nearest to t / 10
NearestErr(t) == IF t = 0 THEN 0 ELSE RoundErr(t, 0)

Tenths(x) == (10 * x.n) \div x.d

ErrOf(x) == NearestErr(Tenths(x)) + (IF "err" \in DOMAIN x THEN x.err ELSE 0)

\* the number record of the double t / 10 + e * Unit
Double(t, e) ==
  IF e = NearestErr(t) THEN Num(t, 10)
  ELSE [k |-> "num", n |-> Num(t, 10).n, d |-> Num(t, 10).d,
        err |-> e - NearestErr(t)]

\* a + b in double arithmetic
DoubleAdd(a, b) ==
  IF a.k # "num" \/ b.k # "num" THEN NumAdd(a, b)
  ELSE IF a.n = 0 THEN b
  ELSE IF b.n = 0 THEN a
  ELSE Double(Tenths(a) + Tenths(b),
              RoundErr(Tenths(a) + Tenths(b), ErrOf(a) + ErrOf(b)))

\* Math.round: the nearest integer, halves towards +Infinity
MathRound(x) ==
  IF x.k # "num" THEN x ELSE Int2Num((2 * x.n + x.d) \div (2 * x.d))

\* the truth value of a number: NaN and 0 are falsy
Truthy(x) == ~(x.k = "NaN" \/ (x.k = "num" /\ x.n = 0))

IsDigit(c) == c \in {"0", "1", "2", "3", "4", "5", "6", "7", "8", "9"}

DigitVal(c) ==
  CASE c = "0" -> 0 [] c = "1" -> 1 [] c = "2" -> 2 [] c = "3" -> 3
    [] c = "4" -> 4 [] c = "5" -> 5 [] c = "6" -> 6 [] c = "7" -> 7
    [] c = "8" -> 8 [] c = "9" -> 9

RECURSIVE DigitRun(_)
\* the longest prefix of s made of digits
DigitRun(s) ==
  IF s # <<>> /\ IsDigit(Head(s)) THEN <<Head(s)>> \o DigitRun(Tail(s)) ELSE <<>>

RECURSIVE DigitsValue(_, _)
\* the value of a digit string read after acc
DigitsValue(digits, acc) ==
  IF digits = <<>> THEN acc
  ELSE DigitsValue(Tail(digits), 10 * acc + DigitVal(Head(digits)))

RECURSIVE Pow10(_)
Pow10(e) == IF e = 0 THEN 1 ELSE 10 * Pow10(e - 1)

\* parseFloat: the longest prefix that is a decimal literal (leading white
\* space and a sign allowed, no exponent), NaN when there is none
parseFloat(text) ==
  LET s0 == trimStart(text)
      neg == s0 # <<>> /\ Head(s0) = "-"
      s1 == IF s0 # <<>> /\ Head(s0) \in {"-", "+"} THEN Tail(s0) ELSE s0
      ip == DigitRun(s1)
      s2 == SubSeq(s1, Len(ip) + 1, Len(s1))
      fp == IF s2 # <<>> /\ Head(s2) = "." THEN DigitRun(Tail(s2)) ELSE <<>>
      mag == Num(DigitsValue(ip \o fp, 0), Pow10(Len(fp)))
  IN  IF ip = <<>> /\ fp = <<>> THEN NaN
      ELSE IF neg THEN NumMul(Int2Num(-1), mag) ELSE mag

\* JavaScript values handed to parseBrazilianNumber
JsString(s) == [type |-> "string", str |-> s, num |-> NaN]

JsNumber(x) == [type |-> "number", str |-> <<>>, num |-> x]

JsNull == [type |-> "null", str |-> <<>>, num |-> NaN]

JsUndefined == [type |-> "undefined", str |-> <<>>, num |-> NaN]

RECURSIVE replaceFirstComma(_)
\* .replace(',', '.'): a string pattern replaces the first occurrence only
replaceFirstComma(s) ==
  IF s = <<>> THEN <<>>
  ELSE IF Head(s) = "," THEN <<".">> \o Tail(s)
  ELSE <<Head(s)>> \o replaceFirstComma(Tail(s))

parseBrazilianNumber(value) ==
  IF value.type = "number" THEN value.num
  ELSE IF value.type \in {"null", "undefined"} \/ value.str = <<>> THEN Int2Num(0)
  ELSE LET parsed == parseFloat(replaceFirstComma(value.str))
       IN  IF parsed.k = "NaN" THEN Int2Num(0) ELSE parsed

(***************************************************************************)
(* The reference table tabela_taco.  Nutrient fields are comma-decimal     *)
(* strings, values per 100 g.                                              *)
(***************************************************************************)
Food(id, alimento, caloria, proteina, carboidrato, gordura) ==
  [id |-> id, alimento |-> alimento, caloria |-> caloria,
   proteina |-> proteina, carboidrato |-> carboidrato, gordura |-> gordura]

\* "ba": 124 kcal, 2,5 / 25,8 / 1,0
F1 == Food(1, <<"b", "a">>, <<"1", "2", "4">>, <<"2", ",", "5">>,
           <<"2", "5", ",", "8">>, <<"1", ",", "0">>)
\* "Ab"
F2 == Food(2, <<"A", "b">>, <<"5", "2">>, <<"0", ",", "3">>,
           <<"1", "4">>, <<>>)
\* "á,b"
F3 == Food(3, <<"á", ",", "b">>, <<"9", "6">>, <<"1", ",", "2">>,
           <<"2", "3", ",", "5">>, <<"0", ",", "1">>)
\* "a,": normalized to "a"
F4 == Food(4, <<"a", ",">>, <<"1", "0">>, <<"0">>, <<"2">>, <<"0">>)

FoodUniverse == {F1, F2, F3, F4}

\* a row whose values have more decimals than one
F5 == Food(5, <<"c", "a">>, <<"2", "5", ",", "8">>, <<"0", ",", "3", "3">>,
           <<"7">>, <<"0", ",", "0", "5">>)

DigitChars == <<"0", "1", "2", "3", "4", "5", "6", "7", "8", "9">>

\* i < 100 written with two digits
TwoDigits(i) == <<DigitChars[(i \div 10) + 1], DigitChars[(i % 10) + 1]>>

\* the rows of the large table whose name starts with "ab"
BigPrefixRows == 35

\* row i of the large table: "Ab<i>" for the first rows and "c, ab<i>" for
\* the rest, but "c<i>" for every ninth
BigRow(i) ==
  Food(100 + i,
       (IF i % 9 = 0 THEN <<"c">>
        ELSE IF i > BigPrefixRows THEN <<"c", ",", " ", "a", "b">>
        ELSE <<"A", "b">>) \o TwoDigits(i),
       TwoDigits(i), <<"1", ",", "5">>, <<"2">>, <<>>)

\* the large table, last row first
BigTable == [k \in 1..BigRows |-> BigRow(BigRows + 1 - k)]

(***************************************************************************)
(* The search of FoodSelect (searchFoods inside the search effect).        *)
(***************************************************************************)
\* results shown by FoodSelect
FS_LIMIT == 30
\* results shown by AddExtraMealModal
AM_LIMIT == 20
\* minimum length of the search term
MIN_TERM == 2
\* debounce delay of FoodSelect
DEBOUNCE_MS == 300

\* searchTerm.length < 2
FStooShort(term) == Len(term) < MIN_TERM

FSsearchWords(term) == searchWordsOf(normalizeText(term))

\* FSfilter with OR across the words
FSfilterAnyWord(words, data) ==
  SelectSeq(data, LAMBDA food :
    \E k \in 1..Len(words) : includes(normalizeText(food.alimento), words[k]))

\* data.filter(food => searchWords.every(word => name.includes(word)))
FSfilter(words, data) ==
  SelectSeq(data, LAMBDA food :
    \A k \in 1..Len(words) : includes(normalizeText(food.alimento), words[k]))

\* FScompare without the starts-with key
FScompareNameOnly(words, a, b) ==
  localeCompare(normalizeText(a.alimento), normalizeText(b.alimento))

\* the comparator given to filteredFoods.sort
FScompare(words, a, b) ==
  LET aName == normalizeText(a.alimento)
      bName == normalizeText(b.alimento)
      firstWord == IF words # <<>> THEN words[1] ELSE <<>>
      aStartsWith == startsWith(aName, firstWord)
      bStartsWith == startsWith(bName, firstWord)
  IN  IF aStartsWith /\ ~bStartsWith THEN -1
      ELSE IF ~aStartsWith /\ bStartsWith THEN 1
      ELSE localeCompare(aName, bName)

RECURSIVE FSinsert(_, _, _)
\* x placed behind every element of the sorted list it does not precede
FSinsert(words, x, sorted) ==
  IF sorted = <<>> THEN <<x>>
  ELSE IF FScompare(words, x, Head(sorted)) < 0 THEN <<x>> \o sorted
  ELSE <<Head(sorted)>> \o FSinsert(words, x, Tail(sorted))

RECURSIVE FSsortFrom(_, _, _)
FSsortFrom(words, list, done) ==
  IF list = <<>> THEN done
  ELSE FSsortFrom(words, Tail(list), FSinsert(words, Head(list), done))

\* filteredFoods.sort(comparator): Array.prototype.sort is a stable sort
FSsort(words, list) == FSsortFrom(words, list, <<>>)

\* filteredFoods after the sort
FSranked(term, data) ==
  LET words == FSsearchWords(term)
  IN  FSsort(words, FSfilter(words, data))

\* FSresults without the cut
FSresultsUncut(term, data) == FSranked(term, data)

\* filteredFoods.slice(0, 30)
FSresults(term, data) == slice0(FSranked(term, data), FS_LIMIT)

(***************************************************************************)
(* The search of AddExtraMealModal (searchFoods).                          *)
(***************************************************************************)
\* term.length < 2
AMtooShort(term) == Len(term) < MIN_TERM

AMsearchWords(term) == searchWordsOf(normalizeTextModal(term))

\* data.filter(food => searchWords.every(word => normalizedName.includes(word)))
AMfilter(words, data) ==
  SelectSeq(data, LAMBDA food :
    \A k \in 1..Len(words) : includes(normalizeTextModal(food.alimento), words[k]))

AMcompare(words, a, b) ==
  LET aName == normalizeTextModal(a.alimento)
      bName == normalizeTextModal(b.alimento)
      firstWord == IF words # <<>> THEN words[1] ELSE <<>>
      aStartsWith == startsWith(aName, firstWord)
      bStartsWith == startsWith(bName, firstWord)
  IN  IF aStartsWith /\ ~bStartsWith THEN -1
      ELSE IF ~aStartsWith /\ bStartsWith THEN 1
      ELSE localeCompare(aName, bName)

RECURSIVE AMinsert(_, _, _)
AMinsert(words, x, sorted) ==
  IF sorted = <<>> THEN <<x>>
  ELSE IF AMcompare(words, x, Head(sorted)) < 0 THEN <<x>> \o sorted
  ELSE <<Head(sorted)>> \o AMinsert(words, x, Tail(sorted))

RECURSIVE AMsortFrom(_, _, _)
AMsortFrom(words, list, done) ==
  IF list = <<>> THEN done
  ELSE AMsortFrom(words, Tail(list), AMinsert(words, Head(list), done))

\* filtered.sort(comparator)
AMsort(words, list) == AMsortFrom(words, list, <<>>)

\* filtered after the sort
AMranked(term, data) ==
  LET words == AMsearchWords(term)
  IN  AMsort(words, AMfilter(words, data))

\* filtered.slice(0, 20)
AMresults(term, data) == slice0(AMranked(term, data), AM_LIMIT)

(***************************************************************************)
(* The search as a function of its inputs: a query text and the rows the   *)
(* candidate source returned are drawn, then each caller's search is       *)
(* applied to them.                                                        *)
(***************************************************************************)
fnVars == <<fnQuery, fnData, fnFS, fnAM>>

fsVars == <<fsSearchTerm, fsFoods, fsLoading, fsSelectedFood, fsHighlightedIndex,
            fsIsOpen, fsTimer, fsPending, fsQuiet>>

amVars == <<amIsOpen, amMealName, amFoods, amSearchTerm, amSearchResults,
            amLoading, amSelectedFood, amQuantity, amPending, amQuiet, amAdded>>

pfVars == <<pbValue, pbOut, rsStep, rsItem, rsOriginal, rsQtyText,
            mtFoods, mtOrder, mtOut>>

upVars == <<upUserId, upLocationKey, upIsInitialLoading, upIsMounted,
            upLastFetchTime, upIsFetching, upNow, upInFlight, upLast>>

flVars == <<flMounted, flFoods, flLoading, flShowModal, flEditingFood, flSaving,
            flFormData, flInFlight, flAlert>>

vars == <<fnVars, fsVars, amVars, pfVars, upVars, flVars>>

QueryChars == {"a", "b", " ", ","}

\* all texts over chars of length at most n
TextsUpTo(chars, n) == UNION {[1..k -> chars] : k \in 0..n}

\* all duplicate-free row lists over rows of length at most n
RowListsUpTo(rows, n) ==
  {r \in UNION {[1..k -> rows] : k \in 0..n} :
     \A i, j \in DOMAIN r : i # j => r[i] # r[j]}

NotApplied == [applied |-> FALSE, ranked |-> <<>>, shown |-> <<>>]

\* no application of the search function under way
FnIdle ==
  /\ fnQuery = <<>>
  /\ fnData = <<>>
  /\ fnFS = NotApplied
  /\ fnAM = NotApplied

FnInit ==
  /\ fnQuery \in TextsUpTo(QueryChars, MaxQueryLen)
  /\ fnData \in RowListsUpTo(FoodUniverse, MaxRows)
  /\ fnFS = NotApplied
  /\ fnAM = NotApplied

\* FoodSelect's searchFoods past the length check, on a successful fetch
FnApplyFS ==
  /\ ~fnFS.applied
  /\ ~FStooShort(fnQuery)
  /\ fnFS' = [applied |-> TRUE, ranked |-> FSranked(fnQuery, fnData),
              shown |-> FSresults(fnQuery, fnData)]
  /\ UNCHANGED <<fnQuery, fnData, fnAM, fsVars, amVars, pfVars, upVars, flVars>>

\* AddExtraMealModal's searchFoods past the length check, on a successful fetch
FnApplyAM ==
  /\ ~fnAM.applied
  /\ ~AMtooShort(fnQuery)
  /\ fnAM' = [applied |-> TRUE, ranked |-> AMranked(fnQuery, fnData),
              shown |-> AMresults(fnQuery, fnData)]
  /\ UNCHANGED <<fnQuery, fnData, fnFS, fsVars, amVars, pfVars, upVars, flVars>>

FnNext == FnApplyFS \/ FnApplyAM

(***************************************************************************)
(* FoodSelect: the component as a state machine.                           *)
(***************************************************************************)
\* selectedFood === null
NoFood == [id |-> 0]

NoTimer == [armed |-> FALSE, left |-> 0]

\* setTimeout(searchFoods, 300)
DebounceTimer == [armed |-> TRUE, left |-> DEBOUNCE_MS]

\* a fetch in flight: the term its searchFoods call closed over, and whether
\* a later searchFoods call has started a fetch since
Fetch(term) == [term |-> term, superseded |-> FALSE]

Supersede(pending) ==
  [i \in DOMAIN pending |-> [pending[i] EXCEPT !.superseded = TRUE]]

RemoveAt(seq, i) == SubSeq(seq, 1, i - 1) \o SubSeq(seq, i + 1, Len(seq))

Min(a, b) == IF a < b THEN a ELSE b

Max(a, b) == IF a > b THEN a ELSE b

\* useState initial values and the first run of the search effect. The parent
\* hands back as the value prop what onChange gave it, so the effect on value
\* sets searchTerm to what it holds already.
FSInit ==
  /\ fsSearchTerm = <<>>
  /\ fsFoods = <<>>
  /\ fsLoading = FALSE
  /\ fsSelectedFood = NoFood
  /\ fsHighlightedIndex = 0
  /\ fsIsOpen = FALSE
  /\ fsTimer = DebounceTimer
  /\ fsPending = <<>>
  /\ fsQuiet = 0

\* the search effect after a render that set searchTerm to term: the cleanup
\* clears the old timer and a new one is set, when searchTerm changed
FSsearchEffect(term) ==
  IF term # fsSearchTerm
  THEN fsTimer' = DebounceTimer /\ fsQuiet' = 0
  ELSE UNCHANGED <<fsTimer, fsQuiet>>

\* the result list is on screen
FSlistShown == fsIsOpen /\ ~fsLoading /\ Len(fsFoods) > 0

FShandleInputChange(newValue) ==
  /\ newValue # fsSearchTerm
  /\ fsSearchTerm' = newValue
  /\ fsSelectedFood' = NoFood
  /\ fsIsOpen' = TRUE
  /\ FSsearchEffect(newValue)
  /\ UNCHANGED <<fsFoods, fsLoading, fsHighlightedIndex, fsPending>>

\* the timer callback: searchFoods up to its await
FSsearchFoods ==
  /\ fsTimer.armed /\ fsTimer.left = 0
  /\ fsTimer' = NoTimer
  /\ IF FStooShort(fsSearchTerm)
     THEN /\ fsFoods' = <<>>
          /\ UNCHANGED <<fsLoading, fsPending>>
     ELSE /\ Len(fsPending) < MaxPending
          /\ fsLoading' = TRUE
          /\ fsPending' = Append(Supersede(fsPending), Fetch(fsSearchTerm))
          /\ UNCHANGED fsFoods
  /\ UNCHANGED <<fsSearchTerm, fsSelectedFood, fsHighlightedIndex, fsIsOpen, fsQuiet>>

\* the fetch answered with rows, without setHighlightedIndex(0)
FSfetchDataKeepingIndex(i, data) ==
  /\ i \in DOMAIN fsPending
  /\ fsFoods' = FSresults(fsPending[i].term, data)
  /\ fsLoading' = FALSE
  /\ fsPending' = RemoveAt(fsPending, i)
  /\ UNCHANGED <<fsSearchTerm, fsSelectedFood, fsHighlightedIndex, fsIsOpen,
                 fsTimer, fsQuiet>>

\* searchFoods after its await: the fetch answered with rows
FSfetchData(i, data) ==
  /\ i \in DOMAIN fsPending
  /\ fsFoods' = FSresults(fsPending[i].term, data)
  /\ fsHighlightedIndex' = 0
  /\ fsLoading' = FALSE
  /\ fsPending' = RemoveAt(fsPending, i)
  /\ UNCHANGED <<fsSearchTerm, fsSelectedFood, fsIsOpen, fsTimer, fsQuiet>>

\* searchFoods after its await: the fetch answered with an error
FSfetchError(i) ==
  /\ i \in DOMAIN fsPending
  /\ fsFoods' = <<>>
  /\ fsLoading' = FALSE
  /\ fsPending' = RemoveAt(fsPending, i)
  /\ UNCHANGED <<fsSearchTerm, fsSelectedFood, fsHighlightedIndex, fsIsOpen,
                 fsTimer, fsQuiet>>

\* the awaited promise rejects: searchFoods has no try, the rest of it never runs
FSfetchThrows(i) ==
  /\ i \in DOMAIN fsPending
  /\ fsPending' = RemoveAt(fsPending, i)
  /\ UNCHANGED <<fsSearchTerm, fsFoods, fsLoading, fsSelectedFood,
                 fsHighlightedIndex, fsIsOpen, fsTimer, fsQuiet>>

\* state changes of handleFoodSelect
FSselect(food) ==
  /\ fsSelectedFood' = food
  /\ fsSearchTerm' = food.alimento
  /\ fsIsOpen' = FALSE
  /\ FSsearchEffect(food.alimento)
  /\ UNCHANGED <<fsFoods, fsLoading, fsHighlightedIndex, fsPending>>

\* a click on the list item at index (0-based)
FShandleFoodSelect(index) ==
  /\ FSlistShown
  /\ index \in 0..(Len(fsFoods) - 1)
  /\ FSselect(fsFoods[index + 1])

\* handleClear; its inputRef.current?.focus() runs onFocus, with the searchTerm
\* of the render that drew the button, when the input is not focused already
FShandleClear ==
  /\ fsSearchTerm # <<>>
  /\ fsSelectedFood' = NoFood
  /\ fsSearchTerm' = <<>>
  /\ fsFoods' = <<>>
  /\ fsIsOpen' \in {fsIsOpen} \cup
                   (IF Len(fsSearchTerm) >= MIN_TERM THEN {TRUE} ELSE {})
  /\ FSsearchEffect(<<>>)
  /\ UNCHANGED <<fsLoading, fsHighlightedIndex, fsPending>>

FShandleKeyDown(key) ==
  /\ fsIsOpen /\ Len(fsFoods) # 0
  /\ CASE key = "ArrowDown" ->
            /\ fsHighlightedIndex' =
                 IF fsHighlightedIndex < Len(fsFoods) - 1
                 THEN fsHighlightedIndex + 1 ELSE fsHighlightedIndex
            /\ UNCHANGED <<fsSearchTerm, fsFoods, fsLoading, fsSelectedFood,
                           fsIsOpen, fsTimer, fsPending, fsQuiet>>
       [] key = "ArrowUp" ->
            /\ fsHighlightedIndex' =
                 IF fsHighlightedIndex > 0
                 THEN fsHighlightedIndex - 1 ELSE fsHighlightedIndex
            /\ UNCHANGED <<fsSearchTerm, fsFoods, fsLoading, fsSelectedFood,
                           fsIsOpen, fsTimer, fsPending, fsQuiet>>
       [] key = "Enter" ->
            IF fsHighlightedIndex + 1 \in DOMAIN fsFoods
            THEN FSselect(fsFoods[fsHighlightedIndex + 1])
            ELSE UNCHANGED fsVars
       [] key = "Escape" ->
            /\ fsIsOpen' = FALSE
            /\ UNCHANGED <<fsSearchTerm, fsFoods, fsLoading, fsSelectedFood,
                           fsHighlightedIndex, fsTimer, fsPending, fsQuiet>>

\* onMouseEnter of the list item at index
FSmouseEnter(index) ==
  /\ FSlistShown
  /\ index \in 0..(Len(fsFoods) - 1)
  /\ fsHighlightedIndex' = index
  /\ UNCHANGED <<fsSearchTerm, fsFoods, fsLoading, fsSelectedFood, fsIsOpen,
                 fsTimer, fsPending, fsQuiet>>

FShandleClickOutside ==
  /\ fsIsOpen
  /\ fsIsOpen' = FALSE
  /\ UNCHANGED <<fsSearchTerm, fsFoods, fsLoading, fsSelectedFood,
                 fsHighlightedIndex, fsTimer, fsPending, fsQuiet>>

\* onFocus of the input
FSonFocus ==
  /\ Len(fsSearchTerm) >= MIN_TERM
  /\ ~fsIsOpen
  /\ fsIsOpen' = TRUE
  /\ UNCHANGED <<fsSearchTerm, fsFoods, fsLoading, fsSelectedFood,
                 fsHighlightedIndex, fsTimer, fsPending, fsQuiet>>

\* TickMs of time pass for FoodSelect
FStime ==
  /\ fsTimer' = IF fsTimer.armed
                THEN [fsTimer EXCEPT !.left = Max(0, fsTimer.left - TickMs)]
                ELSE fsTimer
  /\ fsQuiet' = Min(DEBOUNCE_MS, fsQuiet + TickMs)
  /\ UNCHANGED <<fsSearchTerm, fsFoods, fsLoading, fsSelectedFood,
                 fsHighlightedIndex, fsIsOpen, fsPending>>

Keys == {"ArrowDown", "ArrowUp", "Enter", "Escape"}

(***************************************************************************)
(* AddExtraMealModal: the component as a state machine.                    *)
(***************************************************************************)
\* formatFoodName of utils/formatters: the display form of a food name
formatFoodName(alimento) == <<"formatFoodName">> \o alimento

\* no meal handed to onAdd yet
NoMeal == [id |-> 0]

\* useState('100')
DefaultQuantity == <<"1", "0", "0">>

Hundred == Int2Num(100)

Ten == Int2Num(10)

\* RoundTenth rounding to whole units
RoundTenthAsWhole(x) == MathRound(x)

\* Math.round(x * 10) / 10
RoundTenth(x) == NumDiv(MathRound(NumMul(x, Ten)), Ten)

RECURSIVE LeastUnused(_, _)
LeastUnused(used, from) ==
  IF from \notin used THEN from ELSE LeastUnused(used, from + 1)

\* an identifier generator that returns the same identifier again
repeatedUUID(used) == 1

\* crypto.randomUUID(): an identifier not in use; identifiers are
\* interchangeable, the least unused one stands for it
randomUUID(used) == LeastUnused(used, 1)

AMInit ==
  /\ amIsOpen = TRUE
  /\ amMealName = <<>>
  /\ amFoods = <<>>
  /\ amSearchTerm = <<>>
  /\ amSearchResults = <<>>
  /\ amLoading = FALSE
  /\ amSelectedFood = NoFood
  /\ amQuantity = DefaultQuantity
  /\ amPending = <<>>
  /\ amQuiet = 0
  /\ amAdded = NoMeal

\* the parent shows the modal again
AMopen ==
  /\ ~amIsOpen
  /\ amIsOpen' = TRUE
  /\ amAdded' = NoMeal
  /\ UNCHANGED <<amMealName, amFoods, amSearchTerm, amSearchResults, amLoading,
                 amSelectedFood, amQuantity, amPending, amQuiet>>

AMsetMealName(name) ==
  /\ amIsOpen
  /\ name # amMealName
  /\ amMealName' = name
  /\ UNCHANGED <<amIsOpen, amFoods, amSearchTerm, amSearchResults, amLoading,
                 amSelectedFood, amQuantity, amPending, amQuiet, amAdded>>

\* handleInputChange, with searchFoods(term) up to its await
AMhandleInputChange(term) ==
  /\ amIsOpen
  /\ term # amSearchTerm
  /\ amSearchTerm' = term
  /\ amSelectedFood' = NoFood
  /\ amQuiet' = 0
  /\ IF AMtooShort(term)
     THEN /\ amSearchResults' = <<>>
          /\ UNCHANGED <<amLoading, amPending>>
     ELSE /\ Len(amPending) < MaxPending
          /\ amLoading' = TRUE
          /\ amPending' = Append(Supersede(amPending), Fetch(term))
          /\ UNCHANGED amSearchResults
  /\ UNCHANGED <<amIsOpen, amMealName, amFoods, amQuantity, amAdded>>

\* searchFoods after its await: the fetch answered with rows
AMfetchData(i, data) ==
  /\ i \in DOMAIN amPending
  /\ amSearchResults' = AMresults(amPending[i].term, data)
  /\ amLoading' = FALSE
  /\ amPending' = RemoveAt(amPending, i)
  /\ UNCHANGED <<amIsOpen, amMealName, amFoods, amSearchTerm, amSelectedFood,
                 amQuantity, amQuiet, amAdded>>

\* searchFoods after its await: the fetch answered with an error
AMfetchError(i) ==
  /\ i \in DOMAIN amPending
  /\ amLoading' = FALSE
  /\ amPending' = RemoveAt(amPending, i)
  /\ UNCHANGED <<amIsOpen, amMealName, amFoods, amSearchTerm, amSearchResults,
                 amSelectedFood, amQuantity, amQuiet, amAdded>>

\* the awaited promise rejects: catch logs, finally clears loading
AMfetchThrows(i) ==
  /\ i \in DOMAIN amPending
  /\ amLoading' = FALSE
  /\ amPending' = RemoveAt(amPending, i)
  /\ UNCHANGED <<amIsOpen, amMealName, amFoods, amSearchTerm, amSearchResults,
                 amSelectedFood, amQuantity, amQuiet, amAdded>>

\* a click on the search result at position index (1-based)
AMhandleSelectFood(index) ==
  /\ amIsOpen /\ ~amLoading
  /\ index \in DOMAIN amSearchResults
  /\ amSelectedFood' = amSearchResults[index]
  /\ amSearchTerm' = amSearchResults[index].alimento
  /\ amSearchResults' = <<>>
  /\ UNCHANGED <<amIsOpen, amMealName, amFoods, amLoading, amQuantity,
                 amPending, amQuiet, amAdded>>

\* onClick of the clear button
AMclearSearch ==
  /\ amIsOpen
  /\ amSearchTerm # <<>>
  /\ amSearchTerm' = <<>>
  /\ amSearchResults' = <<>>
  /\ amSelectedFood' = NoFood
  /\ UNCHANGED <<amIsOpen, amMealName, amFoods, amLoading, amQuantity,
                 amPending, amQuiet, amAdded>>

\* onChange of the quantity input
AMsetQuantity(text) ==
  /\ amIsOpen
  /\ amSelectedFood # NoFood
  /\ text # amQuantity
  /\ amQuantity' = text
  /\ UNCHANGED <<amIsOpen, amMealName, amFoods, amSearchTerm, amSearchResults,
                 amLoading, amSelectedFood, amPending, amQuiet, amAdded>>

\* newFood of addFoodToMeal
NewFood(id, food, quantity) ==
  LET parsedQty == parseFloat(quantity)
      qty == IF Truthy(parsedQty) THEN parsedQty ELSE Hundred
      multiplier == NumDiv(qty, Hundred)
  IN  [id |-> id,
       name |-> formatFoodName(food.alimento),
       quantity |-> qty,
       calories |->
         MathRound(NumMul(parseBrazilianNumber(JsString(food.caloria)), multiplier)),
       protein |->
         RoundTenth(NumMul(parseBrazilianNumber(JsString(food.proteina)), multiplier)),
       carbs |->
         RoundTenth(NumMul(parseBrazilianNumber(JsString(food.carboidrato)), multiplier)),
       fats |->
         RoundTenth(NumMul(parseBrazilianNumber(JsString(food.gordura)), multiplier))]

\* the ids of the items of the meal
ItemIds(foods) == {foods[i].id : i \in DOMAIN foods}

AMaddFoodToMeal ==
  /\ amIsOpen
  /\ amSelectedFood # NoFood
  /\ Len(amFoods) < MaxItems
  /\ amFoods' = Append(amFoods, NewFood(randomUUID(ItemIds(amFoods)),
                                        amSelectedFood, amQuantity))
  /\ amSelectedFood' = NoFood
  /\ amSearchTerm' = <<>>
  /\ amQuantity' = DefaultQuantity
  /\ UNCHANGED <<amIsOpen, amMealName, amSearchResults, amLoading, amPending,
                 amQuiet, amAdded>>

\* removeFood dropping the first item whatever the id
removeFirstFood(foods, id) == IF foods = <<>> THEN foods ELSE Tail(foods)

\* foods.filter(f => f.id !== id)
removeFood(foods, id) == SelectSeq(foods, LAMBDA f : f.id # id)

AMremoveFood(id) ==
  /\ amIsOpen
  /\ id \in ItemIds(amFoods)
  /\ amFoods' = removeFood(amFoods, id)
  /\ UNCHANGED <<amIsOpen, amMealName, amSearchTerm, amSearchResults, amLoading,
                 amSelectedFood, amQuantity, amPending, amQuiet, amAdded>>

\* Rescaled changing the quantity alone
RescaledQuantityOnly(f, qty) == [f EXCEPT !.quantity = qty]

\* the item updateFoodQuantity returns for f
Rescaled(f, qty) ==
  LET perGram == NumDiv(f.quantity, Hundred)
      newMultiplier == NumDiv(qty, Hundred)
  IN  [f EXCEPT
         !.quantity = qty,
         !.calories = MathRound(NumMul(NumDiv(f.calories, perGram), newMultiplier)),
         !.protein = RoundTenth(NumMul(NumDiv(f.protein, perGram), newMultiplier)),
         !.carbs = RoundTenth(NumMul(NumDiv(f.carbs, perGram), newMultiplier)),
         !.fats = RoundTenth(NumMul(NumDiv(f.fats, perGram), newMultiplier))]

\* the list updateFoodQuantity(id, newQty) sets
updateFoodQuantity(foods, id, newQty) ==
  LET parsedQty == parseFloat(newQty)
      qty == IF Truthy(parsedQty) THEN parsedQty ELSE Int2Num(0)
  IN  [i \in DOMAIN foods |->
         IF foods[i].id # id THEN foods[i] ELSE Rescaled(foods[i], qty)]

AMupdateFoodQuantity(id, newQty) ==
  /\ amIsOpen
  /\ id \in ItemIds(amFoods)
  /\ amFoods' = updateFoodQuantity(amFoods, id, newQty)
  /\ amFoods' # amFoods
  /\ UNCHANGED <<amIsOpen, amMealName, amSearchTerm, amSearchResults, amLoading,
                 amSelectedFood, amQuantity, amPending, amQuiet, amAdded>>

ZeroTotals ==
  [calories |-> Int2Num(0), protein |-> Int2Num(0), carbs |-> Int2Num(0),
   fats |-> Int2Num(0)]

RECURSIVE reduceTotals(_, _)
\* foods.reduce((acc, food) => ..., acc)
reduceTotals(foods, acc) ==
  IF foods = <<>> THEN acc
  ELSE reduceTotals(Tail(foods),
         [calories |-> DoubleAdd(acc.calories, Head(foods).calories),
          protein |-> DoubleAdd(acc.protein, Head(foods).protein),
          carbs |-> DoubleAdd(acc.carbs, Head(foods).carbs),
          fats |-> DoubleAdd(acc.fats, Head(foods).fats)])

\* mealTotals with the last item left out
mealTotalsButLast(foods) ==
  reduceTotals(SubSeq(foods, 1, Len(foods) - 1), ZeroTotals)

\* mealTotals of the render that shows foods
mealTotals(foods) == reduceTotals(foods, ZeroTotals)

\* 'Refeicao Extra'
DefaultMealName == <<"Refeicao Extra">>

\* state changes of handleClose
AMclose ==
  /\ amMealName' = <<>>
  /\ amFoods' = <<>>
  /\ amSearchTerm' = <<>>
  /\ amSearchResults' = <<>>
  /\ amSelectedFood' = NoFood
  /\ amQuantity' = DefaultQuantity
  /\ amIsOpen' = FALSE

\* extraMeal of handleSave
ExtraMeal(uuid, mealName, foods) ==
  [id |-> uuid,
   meal_name |-> IF mealName # <<>> THEN mealName ELSE DefaultMealName,
   foods |-> foods,
   total_calories |-> mealTotals(foods).calories,
   total_protein |-> mealTotals(foods).protein,
   total_carbs |-> mealTotals(foods).carbs,
   total_fats |-> mealTotals(foods).fats]

AMhandleSave ==
  /\ amIsOpen
  /\ Len(amFoods) # 0
  /\ amAdded' = ExtraMeal(randomUUID(ItemIds(amFoods)), amMealName, amFoods)
  /\ AMclose
  /\ UNCHANGED <<amLoading, amPending, amQuiet>>

\* the Cancel button and the modal's own close
AMhandleClose ==
  /\ amIsOpen
  /\ AMclose
  /\ UNCHANGED <<amLoading, amPending, amQuiet, amAdded>>

\* TickMs of time pass for AddExtraMealModal
AMtime ==
  /\ amQuiet' = Min(DEBOUNCE_MS, amQuiet + TickMs)
  /\ UNCHANGED <<amIsOpen, amMealName, amFoods, amSearchTerm, amSearchResults,
                 amLoading, amSelectedFood, amQuantity, amPending, amAdded>>

(***************************************************************************)
(* usePageData: one mounted instance of the hook as a state machine.       *)
(***************************************************************************)
MIN_REFETCH_INTERVAL == 2000

\* Date.now() at the first render, a time far from 0
StartTime == 10 * MIN_REFETCH_INTERVAL

\* the values of the userId prop: undefined, '' and two users
UserIds == {JsUndefined, JsString(<<>>), JsString(<<"u", "1">>), JsString(<<"u", "2">>)}

\* !userId
NoUser(userId) == userId = JsUndefined \/ userId = JsString(<<>>)

\* no trigger handled yet: the effects of the first render have not run
NoTrigger == [kind |-> "none", started |-> FALSE]

\* a fetchData call in flight
PageFetch(userId, now) == [userId |-> userId, startedAt |-> now]

\* the first render: useState(true), useRef(false), useRef(0), useRef(false)
UPInit ==
  /\ upUserId \in UserIds
  /\ upLocationKey = 0
  /\ upIsInitialLoading = TRUE
  /\ upIsMounted = FALSE
  /\ upLastFetchTime = 0
  /\ upIsFetching = FALSE
  /\ upNow = StartTime
  /\ upInFlight = <<>>
  /\ upLast = NoTrigger

\* a page that is given no user and has not run its effects
UPIdle == UPInit /\ upUserId = JsUndefined

\* handleFetch showing the loading state at every fetch it starts
handleFetchLoadingAgain(isInitial, kind, userId) ==
  IF NoUser(userId)
  THEN /\ upIsInitialLoading' = FALSE
       /\ upLast' = [kind |-> kind, started |-> FALSE]
       /\ UNCHANGED <<upIsMounted, upLastFetchTime, upIsFetching, upInFlight>>
  ELSE IF upIsFetching
  THEN /\ upLast' = [kind |-> kind, started |-> FALSE]
       /\ UNCHANGED <<upIsInitialLoading, upIsMounted, upLastFetchTime,
                      upIsFetching, upInFlight>>
  ELSE IF ~isInitial /\ upNow - upLastFetchTime < MIN_REFETCH_INTERVAL
  THEN /\ upLast' = [kind |-> kind, started |-> FALSE]
       /\ UNCHANGED <<upIsInitialLoading, upIsMounted, upLastFetchTime,
                      upIsFetching, upInFlight>>
  ELSE /\ upIsFetching' = TRUE
       /\ upLastFetchTime' = upNow
       /\ upIsInitialLoading' = TRUE
       /\ upInFlight' = Append(upInFlight, PageFetch(userId, upNow))
       /\ upLast' = [kind |-> kind, started |-> TRUE]
       /\ UNCHANGED upIsMounted

\* handleFetch without the check of isFetchingRef
handleFetchOverlapping(isInitial, kind, userId) ==
  IF NoUser(userId)
  THEN /\ upIsInitialLoading' = FALSE
       /\ upLast' = [kind |-> kind, started |-> FALSE]
       /\ UNCHANGED <<upIsMounted, upLastFetchTime, upIsFetching, upInFlight>>
  ELSE IF ~isInitial /\ upNow - upLastFetchTime < MIN_REFETCH_INTERVAL
  THEN /\ upLast' = [kind |-> kind, started |-> FALSE]
       /\ UNCHANGED <<upIsInitialLoading, upIsMounted, upLastFetchTime,
                      upIsFetching, upInFlight>>
  ELSE /\ upIsFetching' = TRUE
       /\ upLastFetchTime' = upNow
       /\ upIsInitialLoading' = IF ~upIsMounted THEN TRUE ELSE upIsInitialLoading
       /\ upInFlight' = Append(upInFlight, PageFetch(userId, upNow))
       /\ upLast' = [kind |-> kind, started |-> TRUE]
       /\ UNCHANGED upIsMounted

\* handleFetch without the check of the time since the last fetch
handleFetchAnyTime(isInitial, kind, userId) ==
  IF NoUser(userId)
  THEN /\ upIsInitialLoading' = FALSE
       /\ upLast' = [kind |-> kind, started |-> FALSE]
       /\ UNCHANGED <<upIsMounted, upLastFetchTime, upIsFetching, upInFlight>>
  ELSE IF upIsFetching
  THEN /\ upLast' = [kind |-> kind, started |-> FALSE]
       /\ UNCHANGED <<upIsInitialLoading, upIsMounted, upLastFetchTime,
                      upIsFetching, upInFlight>>
  ELSE /\ upIsFetching' = TRUE
       /\ upLastFetchTime' = upNow
       /\ upIsInitialLoading' = IF ~upIsMounted THEN TRUE ELSE upIsInitialLoading
       /\ upInFlight' = Append(upInFlight, PageFetch(userId, upNow))
       /\ upLast' = [kind |-> kind, started |-> TRUE]
       /\ UNCHANGED upIsMounted

\* handleFetch(isInitial) up to its await, run for the trigger kind with the
\* userId of the latest render
handleFetch(isInitial, kind, userId) ==
  IF NoUser(userId)
  THEN /\ upIsInitialLoading' = FALSE
       /\ upLast' = [kind |-> kind, started |-> FALSE]
       /\ UNCHANGED <<upIsMounted, upLastFetchTime, upIsFetching, upInFlight>>
  ELSE IF upIsFetching
  THEN /\ upLast' = [kind |-> kind, started |-> FALSE]
       /\ UNCHANGED <<upIsInitialLoading, upIsMounted, upLastFetchTime,
                      upIsFetching, upInFlight>>
  ELSE IF ~isInitial /\ upNow - upLastFetchTime < MIN_REFETCH_INTERVAL
  THEN /\ upLast' = [kind |-> kind, started |-> FALSE]
       /\ UNCHANGED <<upIsInitialLoading, upIsMounted, upLastFetchTime,
                      upIsFetching, upInFlight>>
  ELSE /\ upIsFetching' = TRUE
       /\ upLastFetchTime' = upNow
       /\ upIsInitialLoading' = IF ~upIsMounted THEN TRUE ELSE upIsInitialLoading
       /\ upInFlight' = Append(upInFlight, PageFetch(userId, upNow))
       /\ upLast' = [kind |-> kind, started |-> TRUE]
       /\ UNCHANGED upIsMounted

\* the effects of the first render run: handleFetch(true), listeners added
UPmount ==
  /\ upLast = NoTrigger
  /\ handleFetch(TRUE, "mount", upUserId)
  /\ UNCHANGED <<upUserId, upLocationKey, upNow>>

\* a navigation to the page: location.key changes, the effect runs again
UPnavigate ==
  /\ upLast # NoTrigger
  /\ upLocationKey < MaxNavigations
  /\ upLocationKey' = upLocationKey + 1
  /\ handleFetch(TRUE, "navigation", upUserId)
  /\ UNCHANGED <<upUserId, upNow>>

\* the userId prop changes: handleFetch is made anew and the effect runs again
UPsetUserId(userId) ==
  /\ upLast # NoTrigger
  /\ userId # upUserId
  /\ upUserId' = userId
  /\ handleFetch(TRUE, "userId", userId)
  /\ UNCHANGED <<upLocationKey, upNow>>

\* fetchData or one of the dependencies changes: the effect runs again
UPdependencyChange ==
  /\ upLast # NoTrigger
  /\ handleFetch(TRUE, "dependency", upUserId)
  /\ UNCHANGED <<upUserId, upLocationKey, upNow>>

\* handleVisibilityChange with document.visibilityState = visibilityState
UPhandleVisibilityChange(visibilityState) ==
  /\ upLast # NoTrigger
  /\ IF visibilityState = "visible"
     THEN handleFetch(FALSE, "visible", upUserId)
     ELSE /\ upLast' = [kind |-> visibilityState, started |-> FALSE]
          /\ UNCHANGED <<upIsInitialLoading, upIsMounted, upLastFetchTime,
                         upIsFetching, upInFlight>>
  /\ UNCHANGED <<upUserId, upLocationKey, upNow>>

\* handleFocus
UPhandleFocus ==
  /\ upLast # NoTrigger
  /\ handleFetch(FALSE, "focus", upUserId)
  /\ UNCHANGED <<upUserId, upLocationKey, upNow>>

\* refetch()
UPrefetch ==
  /\ upLast # NoTrigger
  /\ handleFetch(FALSE, "refetch", upUserId)
  /\ UNCHANGED <<upUserId, upLocationKey, upNow>>

\* the finally block leaving isFetchingRef as it is
UPfetchSettlesStillFetching(i) ==
  /\ i \in DOMAIN upInFlight
  /\ upInFlight' = RemoveAt(upInFlight, i)
  /\ upIsMounted' = TRUE
  /\ upIsInitialLoading' = IF ~upIsMounted THEN FALSE ELSE upIsInitialLoading
  /\ UNCHANGED <<upUserId, upLocationKey, upLastFetchTime, upNow, upLast,
                 upIsFetching>>

\* fetchData() settles, resolved or rejected: the finally block
UPfetchSettles(i) ==
  /\ i \in DOMAIN upInFlight
  /\ upInFlight' = RemoveAt(upInFlight, i)
  /\ upIsFetching' = FALSE
  /\ upIsMounted' = TRUE
  /\ upIsInitialLoading' = IF ~upIsMounted THEN FALSE ELSE upIsInitialLoading
  /\ UNCHANGED <<upUserId, upLocationKey, upLastFetchTime, upNow, upLast>>

\* UpTickMs of time pass for usePageData
UPtime ==
  /\ upNow < StartTime + MaxUpTicks * UpTickMs
  /\ upNow' = upNow + UpTickMs
  /\ UNCHANGED <<upUserId, upLocationKey, upIsInitialLoading, upIsMounted,
                 upLastFetchTime, upIsFetching, upInFlight, upLast>>

VisibilityStates == {"visible", "hidden"}

(***************************************************************************)
(* FoodLibraryManager: the form that adds and edits rows of tabela_taco.   *)
(***************************************************************************)
FormData(alimento, caloria, proteina, carboidrato, fibra, gordura) ==
  [alimento |-> alimento, caloria |-> caloria, proteina |-> proteina,
   carboidrato |-> carboidrato, fibra |-> fibra, gordura |-> gordura]

\* the form with every field empty
EmptyForm == FormData(<<>>, <<>>, <<>>, <<>>, <<>>, <<>>)

\* a row of tabela_taco as loadFoods returns it; a null or missing field is
\* the empty text
LibraryFood(id, alimento, caloria, proteina, carboidrato, fibra, gordura) ==
  [id |-> id, alimento |-> alimento, caloria |-> caloria, proteina |-> proteina,
   carboidrato |-> carboidrato, fibra |-> fibra, gordura |-> gordura]

L1 == LibraryFood(7, <<"a">>, <<"5">>, <<"7">>, <<>>, <<"7">>, <<>>)

L2 == LibraryFood(8, <<" ", "a">>, <<>>, <<>>, <<"7">>, <<>>, <<"7">>)

LibraryTables == {<<>>, <<L1, L2>>}

FormFields == {"alimento", "caloria", "proteina", "carboidrato", "fibra", "gordura"}

\* the texts typed into a field of the form
FieldTexts(field) ==
  IF field = "alimento" THEN {<<>>, <<" ">>, <<" ", "a">>}
  ELSE IF field = "caloria" THEN {<<>>, <<" ">>, <<"5">>}
  ELSE {<<>>, <<"7">>}

\* flAlert is the alert the last step showed
NoAlert == <<>>

\* a request to tabela_taco in flight; saving tells whether the handleSubmit
\* that awaits it has yet to run its finally block
LibraryRequest(op, id, data, saving) ==
  [op |-> op, id |-> id, data |-> data, saving |-> saving]

\* useState initial values; no effect has run
FLInit ==
  /\ flMounted = FALSE
  /\ flFoods = <<>>
  /\ flLoading = TRUE
  /\ flShowModal = FALSE
  /\ flEditingFood = NoFood
  /\ flSaving = FALSE
  /\ flFormData = EmptyForm
  /\ flInFlight = <<>>
  /\ flAlert = NoAlert

\* the mount effect: loadFoods()
FLmount ==
  /\ ~flMounted
  /\ flMounted' = TRUE
  /\ flLoading' = TRUE
  /\ flInFlight' = Append(flInFlight, LibraryRequest("select", 0, EmptyForm, FALSE))
  /\ flAlert' = NoAlert
  /\ UNCHANGED <<flFoods, flShowModal, flEditingFood, flSaving, flFormData>>

\* state changes of resetForm
resetForm ==
  /\ flFormData' = EmptyForm
  /\ flEditingFood' = NoFood
  /\ flShowModal' = FALSE

\* the close button, the cancel button and a click on the overlay
FLresetForm ==
  /\ flMounted /\ flShowModal
  /\ resetForm
  /\ flAlert' = NoAlert
  /\ UNCHANGED <<flMounted, flFoods, flLoading, flSaving, flInFlight>>

\* the add button: resetForm(); setShowModal(true)
FLopenNew ==
  /\ flMounted
  /\ flFormData' = EmptyForm
  /\ flEditingFood' = NoFood
  /\ flShowModal' = TRUE
  /\ flAlert' = NoAlert
  /\ UNCHANGED <<flMounted, flFoods, flLoading, flSaving, flInFlight>>

\* handleEdit(food) for a row of the list shown
FLhandleEdit(index) ==
  /\ flMounted /\ ~flLoading
  /\ index \in DOMAIN flFoods
  /\ flEditingFood' = flFoods[index]
  /\ flFormData' = FormData(flFoods[index].alimento, flFoods[index].caloria,
                            flFoods[index].proteina, flFoods[index].carboidrato,
                            flFoods[index].fibra, flFoods[index].gordura)
  /\ flShowModal' = TRUE
  /\ flAlert' = NoAlert
  /\ UNCHANGED <<flMounted, flFoods, flLoading, flSaving, flInFlight>>

\* onChange of a field of the form
FLsetField(field, text) ==
  /\ flMounted /\ flShowModal
  /\ flFormData[field] # text
  /\ flFormData' = [flFormData EXCEPT ![field] = text]
  /\ flAlert' = NoAlert
  /\ UNCHANGED <<flMounted, flFoods, flLoading, flShowModal, flEditingFood,
                 flSaving, flInFlight>>

\* formData.x || '0'
OrZero(text) == IF text # <<>> THEN text ELSE <<"0">>

\* the form sent as it was entered
foodDataAsEntered(formData) == formData

\* foodData of handleSubmit
foodData(formData) ==
  FormData(trim(formData.alimento), OrZero(formData.caloria),
           OrZero(formData.proteina), OrZero(formData.carboidrato),
           OrZero(formData.fibra), OrZero(formData.gordura))

\* handleSubmit up to its first await; the submit button is disabled while
\* saving
FLhandleSubmit ==
  /\ flMounted /\ flShowModal /\ ~flSaving
  /\ IF trim(flFormData.alimento) = <<>>
     THEN /\ flAlert' = <<"Nome do alimento e obrigatorio">>
          /\ UNCHANGED <<flSaving, flInFlight>>
     ELSE /\ flSaving' = TRUE
          /\ flInFlight' =
               Append(flInFlight,
                      IF flEditingFood # NoFood
                      THEN LibraryRequest("update", flEditingFood.id,
                                          foodData(flFormData), TRUE)
                      ELSE LibraryRequest("insert", 0, foodData(flFormData), TRUE))
          /\ flAlert' = NoAlert
  /\ UNCHANGED <<flMounted, flFoods, flLoading, flShowModal, flEditingFood,
                 flFormData>>

\* the update or insert returns an error: alert, setSaving(false), return
\* (the finally block sets saving false again)
FLwriteError(i) ==
  /\ i \in DOMAIN flInFlight
  /\ flInFlight[i].op \in {"update", "insert"}
  /\ flAlert' = IF flInFlight[i].op = "update" THEN <<"Erro ao atualizar: ">>
                ELSE <<"Erro ao adicionar: ">>
  /\ flSaving' = FALSE
  /\ flInFlight' = RemoveAt(flInFlight, i)
  /\ UNCHANGED <<flMounted, flFoods, flLoading, flShowModal, flEditingFood,
                 flFormData>>

\* the update or insert throws: the catch block, then the finally block
FLwriteThrows(i) ==
  /\ i \in DOMAIN flInFlight
  /\ flInFlight[i].op \in {"update", "insert"}
  /\ flAlert' = <<"Erro ao salvar: ">>
  /\ flSaving' = FALSE
  /\ flInFlight' = RemoveAt(flInFlight, i)
  /\ UNCHANGED <<flMounted, flFoods, flLoading, flShowModal, flEditingFood,
                 flFormData>>

\* the update or insert succeeds: resetForm(), then loadFoods() up to its
\* await; handleSubmit goes on waiting for it
FLwriteDone(i) ==
  /\ i \in DOMAIN flInFlight
  /\ flInFlight[i].op \in {"update", "insert"}
  /\ resetForm
  /\ flLoading' = TRUE
  /\ flInFlight' = [flInFlight EXCEPT
                      ![i] = LibraryRequest("select", 0, EmptyForm, TRUE)]
  /\ flAlert' = NoAlert
  /\ UNCHANGED <<flMounted, flFoods, flSaving>>

\* handleDelete is left out: it changes no state of the form and sends no
\* update or insert.

\* the select of loadFoods returns data: setFoods(data || []),
\* setLoading(false), and the finally block of the handleSubmit awaiting it
FLloadData(i, data) ==
  /\ i \in DOMAIN flInFlight
  /\ flInFlight[i].op = "select"
  /\ flFoods' = data
  /\ flLoading' = FALSE
  /\ flSaving' = IF flInFlight[i].saving THEN FALSE ELSE flSaving
  /\ flInFlight' = RemoveAt(flInFlight, i)
  /\ flAlert' = NoAlert
  /\ UNCHANGED <<flMounted, flShowModal, flEditingFood, flFormData>>

\* the select of loadFoods returns an error: foods are kept
FLloadError(i) ==
  /\ i \in DOMAIN flInFlight
  /\ flInFlight[i].op = "select"
  /\ flLoading' = FALSE
  /\ flSaving' = IF flInFlight[i].saving THEN FALSE ELSE flSaving
  /\ flInFlight' = RemoveAt(flInFlight, i)
  /\ flAlert' = NoAlert
  /\ UNCHANGED <<flMounted, flFoods, flShowModal, flEditingFood, flFormData>>

(***************************************************************************)
(* Functions applied on their own.                                         *)
(***************************************************************************)
\* nothing given, nothing returned
None == [k |-> "none"]

\* no function applied on its own
PfIdle ==
  /\ pbValue = None /\ pbOut = None
  /\ rsStep = "idle" /\ rsItem = None /\ rsOriginal = None /\ rsQtyText = <<>>
  /\ mtFoods = <<>> /\ mtOrder = <<>> /\ mtOut = None

(***************************************************************************)
(* Specifications.                                                         *)
(***************************************************************************)
\* texts typed into the search inputs
Typed == {<<>>, <<"a">>, <<"a", "b">>, <<"b", " ", "a">>, <<",", ",">>}

\* row lists the candidate source answers with
Tables == {<<F1, F2, F3>>, <<F4, F3, F1>>}

\* texts typed while the candidate source holds the large table
TypedBig == {<<>>, <<"a", "b">>}

\* row lists the candidate source answers with when it holds the large table
TablesBig == {BigTable}

\* text typed into the search input of the modal while a meal is built
TypedMeal == {<<"b", " ", "a">>}

\* row list the candidate source answers with while a meal is built
TablesMeal == {<<F4, F1>>}

\* texts typed into the quantity inputs
QtyTexts == {<<>>, <<"0">>, <<"1", "5", "0">>}

\* texts typed into the meal name input
MealNames == {<<>>, <<"L">>}

\* time passes
Tick ==
  /\ FStime
  /\ AMtime
  /\ UNCHANGED <<fnVars, pfVars, upVars, flVars>>

InitSearchFn == FnInit /\ FSInit /\ AMInit /\ PfIdle /\ UPIdle /\ FLInit

SpecSearchFn == InitSearchFn /\ [][FnNext]_vars

InitFoodSelect == FnIdle /\ FSInit /\ AMInit /\ PfIdle /\ UPIdle /\ FLInit

NextFoodSelect ==
  \/ \E newValue \in Typed : FShandleInputChange(newValue)
       /\ UNCHANGED <<fnVars, amVars, pfVars, upVars, flVars>>
  \/ FSsearchFoods /\ UNCHANGED <<fnVars, amVars, pfVars, upVars, flVars>>
  \/ \E i \in DOMAIN fsPending : \E data \in Tables :
       FSfetchData(i, data) /\ UNCHANGED <<fnVars, amVars, pfVars, upVars, flVars>>
  \/ \E i \in DOMAIN fsPending : FSfetchError(i)
       /\ UNCHANGED <<fnVars, amVars, pfVars, upVars, flVars>>
  \/ \E i \in DOMAIN fsPending : FSfetchThrows(i)
       /\ UNCHANGED <<fnVars, amVars, pfVars, upVars, flVars>>
  \/ \E index \in 0..(Len(fsFoods) - 1) :
       FShandleFoodSelect(index) /\ UNCHANGED <<fnVars, amVars, pfVars, upVars, flVars>>
  \/ FShandleClear /\ UNCHANGED <<fnVars, amVars, pfVars, upVars, flVars>>
  \/ \E key \in Keys : FShandleKeyDown(key) /\ UNCHANGED <<fnVars, amVars, pfVars, upVars, flVars>>
  \/ \E index \in 0..(Len(fsFoods) - 1) :
       FSmouseEnter(index) /\ UNCHANGED <<fnVars, amVars, pfVars, upVars, flVars>>
  \/ FShandleClickOutside /\ UNCHANGED <<fnVars, amVars, pfVars, upVars, flVars>>
  \/ FSonFocus /\ UNCHANGED <<fnVars, amVars, pfVars, upVars, flVars>>
  \/ Tick

SpecFoodSelect == InitFoodSelect /\ [][NextFoodSelect]_vars

InitModalSearch == FnIdle /\ FSInit /\ AMInit /\ PfIdle /\ UPIdle /\ FLInit

\* the search side of the modal
NextModalSearch ==
  \/ AMopen /\ UNCHANGED <<fnVars, fsVars, pfVars, upVars, flVars>>
  \/ \E term \in Typed : AMhandleInputChange(term)
       /\ UNCHANGED <<fnVars, fsVars, pfVars, upVars, flVars>>
  \/ \E i \in DOMAIN amPending : \E data \in Tables :
       AMfetchData(i, data) /\ UNCHANGED <<fnVars, fsVars, pfVars, upVars, flVars>>
  \/ \E i \in DOMAIN amPending : AMfetchError(i)
       /\ UNCHANGED <<fnVars, fsVars, pfVars, upVars, flVars>>
  \/ \E i \in DOMAIN amPending : AMfetchThrows(i)
       /\ UNCHANGED <<fnVars, fsVars, pfVars, upVars, flVars>>
  \/ \E index \in DOMAIN amSearchResults :
       AMhandleSelectFood(index) /\ UNCHANGED <<fnVars, fsVars, pfVars, upVars, flVars>>
  \/ AMclearSearch /\ UNCHANGED <<fnVars, fsVars, pfVars, upVars, flVars>>
  \/ AMhandleClose /\ UNCHANGED <<fnVars, fsVars, pfVars, upVars, flVars>>
  \/ Tick

SpecModalSearch == InitModalSearch /\ [][NextModalSearch]_vars

InitLimits == FnIdle /\ FSInit /\ AMInit /\ PfIdle /\ UPIdle /\ FLInit

\* both search boxes on a large reference table
NextLimits ==
  \/ \E newValue \in TypedBig :
       FShandleInputChange(newValue) /\ UNCHANGED <<fnVars, amVars, pfVars, upVars, flVars>>
  \/ FSsearchFoods /\ UNCHANGED <<fnVars, amVars, pfVars, upVars, flVars>>
  \/ \E i \in DOMAIN fsPending : \E data \in TablesBig :
       FSfetchData(i, data) /\ UNCHANGED <<fnVars, amVars, pfVars, upVars, flVars>>
  \/ FShandleClear /\ UNCHANGED <<fnVars, amVars, pfVars, upVars, flVars>>
  \/ \E term \in TypedBig : AMhandleInputChange(term)
       /\ UNCHANGED <<fnVars, fsVars, pfVars, upVars, flVars>>
  \/ \E i \in DOMAIN amPending : \E data \in TablesBig :
       AMfetchData(i, data) /\ UNCHANGED <<fnVars, fsVars, pfVars, upVars, flVars>>
  \/ AMclearSearch /\ UNCHANGED <<fnVars, fsVars, pfVars, upVars, flVars>>
  \/ Tick

SpecLimits == InitLimits /\ [][NextLimits]_vars

InitMeal == FnIdle /\ FSInit /\ AMInit /\ PfIdle /\ UPIdle /\ FLInit

\* the meal builder of the modal, fed by one search text
NextMeal ==
  \/ AMopen /\ UNCHANGED <<fnVars, fsVars, pfVars, upVars, flVars>>
  \/ \E name \in MealNames : AMsetMealName(name)
       /\ UNCHANGED <<fnVars, fsVars, pfVars, upVars, flVars>>
  \/ \E term \in TypedMeal : AMhandleInputChange(term)
       /\ UNCHANGED <<fnVars, fsVars, pfVars, upVars, flVars>>
  \/ \E i \in DOMAIN amPending : \E data \in TablesMeal :
       AMfetchData(i, data) /\ UNCHANGED <<fnVars, fsVars, pfVars, upVars, flVars>>
  \/ \E index \in DOMAIN amSearchResults :
       AMhandleSelectFood(index) /\ UNCHANGED <<fnVars, fsVars, pfVars, upVars, flVars>>
  \/ \E text \in QtyTexts : AMsetQuantity(text)
       /\ UNCHANGED <<fnVars, fsVars, pfVars, upVars, flVars>>
  \/ AMaddFoodToMeal /\ UNCHANGED <<fnVars, fsVars, pfVars, upVars, flVars>>
  \/ \E id \in ItemIds(amFoods) : AMremoveFood(id)
       /\ UNCHANGED <<fnVars, fsVars, pfVars, upVars, flVars>>
  \/ \E id \in ItemIds(amFoods) : \E newQty \in QtyTexts :
       AMupdateFoodQuantity(id, newQty) /\ UNCHANGED <<fnVars, fsVars, pfVars, upVars, flVars>>
  \/ AMhandleSave /\ UNCHANGED <<fnVars, fsVars, pfVars, upVars, flVars>>
  \/ AMhandleClose /\ UNCHANGED <<fnVars, fsVars, pfVars, upVars, flVars>>

SpecMeal == InitMeal /\ [][NextMeal]_vars

\* the longest text handed to parseBrazilianNumber
MaxValueLen == 3

ValueChars == {"1", "5", ",", ".", "a"}

\* the values handed to parseBrazilianNumber: strings, numbers, null, undefined
PbValues ==
  {JsString(t) : t \in TextsUpTo(ValueChars, MaxValueLen)}
    \cup {JsNumber(x) : x \in {Int2Num(0), Int2Num(42), Num(5, 2), Int2Num(-1), NaN}}
    \cup {JsNull, JsUndefined}

\* a call parseBrazilianNumber(value)
PbApply(value) ==
  /\ pbValue = None
  /\ pbValue' = value
  /\ pbOut' = parseBrazilianNumber(value)
  /\ UNCHANGED <<rsStep, rsItem, rsOriginal, rsQtyText, mtFoods, mtOrder, mtOut>>

InitParse == FnIdle /\ FSInit /\ AMInit /\ PfIdle /\ UPIdle /\ FLInit

NextParse ==
  \E value \in PbValues :
    PbApply(value) /\ UNCHANGED <<fnVars, fsVars, amVars, upVars, flVars>>

SpecParse == InitParse /\ [][NextParse]_vars

\* the longest item list handed to mealTotals on its own
MaxTotalItems == 3

MtFoods == {F1, F3}

MtTexts == {<<"1", "0", "0">>, <<"2", "0", "0">>, <<"3", "0", "0">>}

\* the item lists addFoodToMeal builds from MtFoods at the quantities MtTexts
MtLists ==
  UNION {{[i \in 1..k |-> NewFood(i, c[i][1], c[i][2])] :
            c \in [1..k -> MtFoods \X MtTexts]} : k \in 0..MaxTotalItems}

\* the lists holding the items of foods in another order
Reorderings(foods) ==
  {[i \in DOMAIN foods |-> foods[p[i]]] :
     p \in {q \in [DOMAIN foods -> DOMAIN foods] :
              \A i, j \in DOMAIN foods : q[i] = q[j] => i = j}}

\* mealTotals of the list and of the reordered list
MtTotals ==
  /\ mtOut = None
  /\ mtOut' = [listed |-> mealTotals(mtFoods), reordered |-> mealTotals(mtOrder)]
  /\ UNCHANGED <<mtFoods, mtOrder, pbValue, pbOut, rsStep, rsItem, rsOriginal,
                 rsQtyText>>

InitTotals ==
  /\ FnIdle /\ FSInit /\ AMInit /\ UPIdle /\ FLInit
  /\ pbValue = None /\ pbOut = None
  /\ rsStep = "idle" /\ rsItem = None /\ rsOriginal = None /\ rsQtyText = <<>>
  /\ mtFoods \in MtLists
  /\ mtOrder \in Reorderings(mtFoods)
  /\ mtOut = None

NextTotals == MtTotals /\ UNCHANGED <<fnVars, fsVars, amVars, upVars, flVars>>

SpecTotals == InitTotals /\ [][NextTotals]_vars

\* rows an item is made of, texts typed when it is added and when it is edited
RsFoods == {F1, F2, F3, F4, F5}

RsAddTexts == {<<"5", "0">>, <<"1", "5", "0">>, <<"1", "0", "0", "0">>}

RsEditTexts == {<<"0">>, <<"1", "0", "0">>, <<"9", "0", "0">>}

\* the item updateFoodQuantity(item.id, newQty) leaves in a meal of that item
RsUpdated(item, newQty) == updateFoodQuantity(<<item>>, item.id, newQty)[1]

\* addFoodToMeal with food selected and text in the quantity input
RsAdd(food, text) ==
  /\ rsStep = "idle"
  /\ rsItem' = NewFood(randomUUID({}), food, text)
  /\ rsQtyText' = text
  /\ rsStep' = "new"
  /\ UNCHANGED rsOriginal

\* updateFoodQuantity with text typed into the item's quantity input
RsEdit(text) ==
  /\ rsStep = "new"
  /\ rsItem' = RsUpdated(rsItem, text)
  /\ rsQtyText' = text
  /\ rsStep' = "edited"
  /\ UNCHANGED rsOriginal

\* updateFoodQuantity to 200 g
RsToTwoHundred ==
  /\ rsStep \in {"new", "edited"}
  /\ rsOriginal' = rsItem
  /\ rsItem' = RsUpdated(rsItem, <<"2", "0", "0">>)
  /\ rsStep' = "at200"
  /\ UNCHANGED rsQtyText

\* updateFoodQuantity back to the quantity the item had
RsBack ==
  /\ rsStep = "at200"
  /\ rsItem' = RsUpdated(rsItem, rsQtyText)
  /\ rsStep' = "back"
  /\ UNCHANGED <<rsOriginal, rsQtyText>>

InitRescale == FnIdle /\ FSInit /\ AMInit /\ PfIdle /\ UPIdle /\ FLInit

\* one item added, edited, rescaled to 200 g and back
NextRescale ==
  \/ \E food \in RsFoods : \E text \in RsAddTexts :
       RsAdd(food, text)
       /\ UNCHANGED <<fnVars, fsVars, amVars, upVars, flVars, pbValue, pbOut, mtFoods,
                    mtOrder, mtOut>>
  \/ \E text \in RsEditTexts :
       RsEdit(text)
       /\ UNCHANGED <<fnVars, fsVars, amVars, upVars, flVars, pbValue, pbOut, mtFoods,
                    mtOrder, mtOut>>
  \/ RsToTwoHundred
       /\ UNCHANGED <<fnVars, fsVars, amVars, upVars, flVars, pbValue, pbOut, mtFoods,
                    mtOrder, mtOut>>
  \/ RsBack
       /\ UNCHANGED <<fnVars, fsVars, amVars, upVars, flVars, pbValue, pbOut, mtFoods,
                    mtOrder, mtOut>>

SpecRescale == InitRescale /\ [][NextRescale]_vars

InitPageData == FnIdle /\ FSInit /\ AMInit /\ PfIdle /\ UPInit /\ FLInit

\* one page using usePageData
NextPageData ==
  \/ UPmount /\ UNCHANGED <<fnVars, fsVars, amVars, pfVars, flVars>>
  \/ UPnavigate /\ UNCHANGED <<fnVars, fsVars, amVars, pfVars, flVars>>
  \/ \E userId \in UserIds :
       UPsetUserId(userId) /\ UNCHANGED <<fnVars, fsVars, amVars, pfVars, flVars>>
  \/ UPdependencyChange /\ UNCHANGED <<fnVars, fsVars, amVars, pfVars, flVars>>
  \/ \E visibilityState \in VisibilityStates :
       UPhandleVisibilityChange(visibilityState)
       /\ UNCHANGED <<fnVars, fsVars, amVars, pfVars, flVars>>
  \/ UPhandleFocus /\ UNCHANGED <<fnVars, fsVars, amVars, pfVars, flVars>>
  \/ UPrefetch /\ UNCHANGED <<fnVars, fsVars, amVars, pfVars, flVars>>
  \/ \E i \in DOMAIN upInFlight :
       UPfetchSettles(i) /\ UNCHANGED <<fnVars, fsVars, amVars, pfVars, flVars>>
  \/ UPtime /\ UNCHANGED <<fnVars, fsVars, amVars, pfVars, flVars>>

SpecPageData == InitPageData /\ [][NextPageData]_vars

\* the food library page: the list, the form and the requests
InitLibrary == FnIdle /\ FSInit /\ AMInit /\ PfIdle /\ UPIdle /\ FLInit

NextLibrary ==
  \/ FLmount /\ UNCHANGED <<fnVars, fsVars, amVars, pfVars, upVars>>
  \/ FLresetForm /\ UNCHANGED <<fnVars, fsVars, amVars, pfVars, upVars>>
  \/ FLopenNew /\ UNCHANGED <<fnVars, fsVars, amVars, pfVars, upVars>>
  \/ \E index \in DOMAIN flFoods :
       FLhandleEdit(index) /\ UNCHANGED <<fnVars, fsVars, amVars, pfVars, upVars>>
  \/ \E field \in FormFields : \E text \in FieldTexts(field) :
       FLsetField(field, text) /\ UNCHANGED <<fnVars, fsVars, amVars, pfVars, upVars>>
  \/ FLhandleSubmit /\ UNCHANGED <<fnVars, fsVars, amVars, pfVars, upVars>>
  \/ \E i \in DOMAIN flInFlight :
       FLwriteError(i) /\ UNCHANGED <<fnVars, fsVars, amVars, pfVars, upVars>>
  \/ \E i \in DOMAIN flInFlight :
       FLwriteThrows(i) /\ UNCHANGED <<fnVars, fsVars, amVars, pfVars, upVars>>
  \/ \E i \in DOMAIN flInFlight :
       FLwriteDone(i) /\ UNCHANGED <<fnVars, fsVars, amVars, pfVars, upVars>>
  \/ \E i \in DOMAIN flInFlight : \E data \in LibraryTables :
       FLloadData(i, data) /\ UNCHANGED <<fnVars, fsVars, amVars, pfVars, upVars>>
  \/ \E i \in DOMAIN flInFlight :
       FLloadError(i) /\ UNCHANGED <<fnVars, fsVars, amVars, pfVars, upVars>>

SpecLibrary == InitLibrary /\ [][NextLibrary]_vars

(***************************************************************************)
(* Properties of the search function.                                      *)
(***************************************************************************)
SeqRange(seq) == {seq[i] : i \in DOMAIN seq}

\* the maximal runs <<i, j>> of non-space characters of q
WordSpans(q) ==
  {sp \in (1..Len(q)) \X (1..Len(q)) :
     /\ sp[1] <= sp[2]
     /\ \A k \in sp[1]..sp[2] : q[k] # " "
     /\ sp[1] = 1 \/ q[sp[1] - 1] = " "
     /\ sp[2] = Len(q) \/ q[sp[2] + 1] = " "}

\* q[i..j] occurs somewhere in name
OccursIn(q, i, j, name) ==
  \E off \in 0..(Len(name) - (j - i + 1)) :
    \A m \in 0..(j - i) : name[off + 1 + m] = q[i + m]

\* every word of the normalized query is a substring of the normalized name
MatchesAllWords(query, food) ==
  LET q == normalizeText(query)
      name == normalizeText(food.alimento)
  IN  \A sp \in WordSpans(q) : OccursIn(q, sp[1], sp[2], name)

\* the normalized name starts with the first word of the normalized query
StartsWithFirstWord(query, food) ==
  LET q == normalizeText(query)
      name == normalizeText(food.alimento)
  IN  \A sp \in WordSpans(q) :
        (\A other \in WordSpans(q) : sp[1] <= other[1]) =>
          /\ sp[2] - sp[1] + 1 <= Len(name)
          /\ \A m \in 0..(sp[2] - sp[1]) : name[1 + m] = q[sp[1] + m]

\* a sorts no later than b: equal, a proper prefix, or smaller at the first
\* position where they differ
NameLeq(a, b) ==
  \/ a = b
  \/ \E k \in 1..(Len(a) + 1) :
       /\ k <= Len(b)
       /\ \A m \in 1..(k - 1) : a[m] = b[m]
       /\ k = Len(a) + 1 \/ CharRank(a[k]) < CharRank(b[k])

MatchSetOk(out) ==
  out.applied =>
    /\ \A food \in FoodUniverse :
         food \in SeqRange(out.ranked)
           <=> (food \in SeqRange(fnData) /\ MatchesAllWords(fnQuery, food))
    /\ Len(out.ranked) = Cardinality(SeqRange(out.ranked))

\* C5: a candidate is among the matches exactly when every whitespace-separated
\* word of the normalized query is a substring of its normalized name, in
\* FoodSelect and in AddExtraMealModal; nothing outside the candidates (and
\* nothing twice) is returned.
C5_MatchIffEveryWord == MatchSetOk(fnFS) /\ MatchSetOk(fnAM)

\* C5 witness: a two-word query whose words occur in a match in another
\* order, with a candidate left out.
C5_Witness ==
  /\ fnFS.applied /\ fnAM.applied
  /\ Cardinality(WordSpans(normalizeText(fnQuery))) = 2
  /\ fnFS.ranked # <<>> /\ fnAM.ranked = fnFS.ranked
  /\ Len(fnFS.ranked) < Len(fnData)
  /\ \E i \in DOMAIN fnFS.ranked :
       ~includes(normalizeText(fnFS.ranked[i].alimento), normalizeText(fnQuery))

RankedOk(out) ==
  out.applied =>
    \A i, j \in DOMAIN out.ranked :
      i < j =>
        LET a == out.ranked[i]
            b == out.ranked[j]
            aStarts == StartsWithFirstWord(fnQuery, a)
            bStarts == StartsWithFirstWord(fnQuery, b)
        IN  /\ bStarts => aStarts
            /\ (aStarts <=> bStarts) =>
                 NameLeq(normalizeText(a.alimento), normalizeText(b.alimento))

\* C6: in the ranked result the matches that start with the first query word
\* come before the others, and each group is in ascending order of normalized
\* name, whatever the order of the candidates.
C6_RankedOrder == RankedOk(fnFS) /\ RankedOk(fnAM)

\* C6 witness: three matches, both groups present, the last candidate ranked
\* first.
C6_Witness ==
  /\ fnFS.applied /\ fnAM.applied
  /\ Len(fnFS.ranked) = 3 /\ Len(fnAM.ranked) = 3
  /\ fnFS.ranked[1] = fnData[Len(fnData)]
  /\ StartsWithFirstWord(fnQuery, fnFS.ranked[2])
  /\ ~StartsWithFirstWord(fnQuery, fnFS.ranked[3])
  /\ WordSpans(normalizeText(fnQuery)) # {}

(***************************************************************************)
(* Properties of the two components.                                       *)
(***************************************************************************)
\* the first n entries of list
FirstN(list, n) == [k \in 1..Min(n, Len(list)) |-> list[k]]

\* the fetch of the step that issued one in pending -> pendingAfter, if any
Issued(pending, pendingAfter) ==
  IF Len(pendingAfter) > Len(pending) THEN {pendingAfter[Len(pendingAfter)]} ELSE {}

\* C1: in FoodSelect and in AddExtraMealModal the response of a fetch that a
\* newer query has superseded never overwrites the displayed result list,
\* whatever the order in which the fetches complete.
C1_StaleResponseDiscarded ==
  [][/\ \A i \in DOMAIN fsPending : \A data \in Tables :
          (fsPending[i].superseded /\ FSfetchData(i, data)) => fsFoods' = fsFoods
     /\ \A i \in DOMAIN amPending : \A data \in Tables :
          (amPending[i].superseded /\ AMfetchData(i, data))
            => amSearchResults' = amSearchResults]_vars

\* C2: both components debounce: a fetch is issued only when the input has
\* been unchanged for 300 ms, and only for the query the input then holds.
C2_FetchOnlyAfterQuietWindow ==
  [][/\ \A f \in Issued(fsPending, fsPending') :
          fsQuiet' >= DEBOUNCE_MS /\ f.term = fsSearchTerm'
     /\ \A f \in Issued(amPending, amPending') :
          amQuiet' >= DEBOUNCE_MS /\ f.term = amSearchTerm']_vars

\* C3: once a search is abandoned (input cleared, modal closed) and its list
\* is empty, the list stays empty for as long as no new query is entered: the
\* response of a fetch in flight at that moment changes nothing.
C3_AbandonedSearchStaysEmpty ==
  [][/\ (fsSearchTerm = <<>> /\ fsFoods = <<>> /\ fsSearchTerm' = <<>>)
          => fsFoods' = <<>>
     /\ (amSearchTerm = <<>> /\ amSearchResults = <<>> /\ amSearchTerm' = <<>>)
          => amSearchResults' = <<>>]_vars

\* the search of out ran on a query whose normalized form is too short
ShortNormalizedOk(out) ==
  Len(normalizeText(fnQuery)) < MIN_TERM => (~out.applied /\ out.shown = <<>>)

\* C4: a query whose normalized form has fewer than 2 characters gives an
\* empty result and is matched against no candidate, in FoodSelect and in
\* AddExtraMealModal alike.
C4_ThresholdOnNormalizedQuery == ShortNormalizedOk(fnFS) /\ ShortNormalizedOk(fnAM)

\* the lists FoodSelect may show on the large table: none, or the first 30 of
\* the ranked matches of a query it fetches for
ShownByFS ==
  {<<>>} \cup {FirstN(FSranked(t, d), FS_LIMIT) :
                 t \in {q \in TypedBig : ~FStooShort(q)}, d \in TablesBig}

\* the lists AddExtraMealModal may show on the large table
ShownByAM ==
  {<<>>} \cup {FirstN(AMranked(t, d), AM_LIMIT) :
                 t \in {q \in TypedBig : ~AMtooShort(q)}, d \in TablesBig}

\* for one query and one candidate list the modal's list is the start of the
\* selector's list
ModalListStartsSelectorList ==
  \A t \in {q \in TypedBig : ~FStooShort(q) /\ ~AMtooShort(q)} : \A d \in TablesBig :
    AMresults(t, d) = FirstN(FSresults(t, d), AM_LIMIT)

\* C7: FoodSelect never displays more than 30 results and AddExtraMealModal
\* never more than 20; a displayed list is the first 30 (20) entries of the
\* ranked matches, and the 20-entry list is the start of the 30-entry list
\* for the same query and candidates.
C7_ListIsCutRankedList ==
  /\ Len(fsFoods) <= FS_LIMIT
  /\ Len(amSearchResults) <= AM_LIMIT
  /\ fsFoods \in ShownByFS
  /\ amSearchResults \in ShownByAM
  /\ ModalListStartsSelectorList

\* C7 witness: more than 30 rows match; both lists are cut, and the modal's
\* 20 are the first 20 of the selector's 30.
C7_Witness ==
  /\ Len(fsFoods) = FS_LIMIT
  /\ Len(amSearchResults) = AM_LIMIT
  /\ amSearchResults = FirstN(fsFoods, AM_LIMIT)
  /\ Len(FSfilter(FSsearchWords(fsSearchTerm), BigTable)) > FS_LIMIT

\* C8: after a failed fetch (error result or thrown exception) the list is
\* empty in FoodSelect and in AddExtraMealModal, and no fetch is issued in
\* its place.
C8_FailureShowsNoResults ==
  [][/\ \A i \in DOMAIN fsPending :
          (FSfetchError(i) \/ FSfetchThrows(i))
            => (fsFoods' = <<>> /\ Len(fsPending') < Len(fsPending))
     /\ \A i \in DOMAIN amPending :
          (AMfetchError(i) \/ AMfetchThrows(i))
            => (amSearchResults' = <<>> /\ Len(amPending') < Len(amPending))]_vars

\* the sum of one nutrient over the items of foods, added in list order as
\* doubles
SumCalories(foods) ==
  LET S[n \in 0..Len(foods)] ==
        IF n = 0 THEN Int2Num(0) ELSE DoubleAdd(S[n - 1], foods[n].calories)
  IN  S[Len(foods)]

SumProtein(foods) ==
  LET S[n \in 0..Len(foods)] ==
        IF n = 0 THEN Int2Num(0) ELSE DoubleAdd(S[n - 1], foods[n].protein)
  IN  S[Len(foods)]

SumCarbs(foods) ==
  LET S[n \in 0..Len(foods)] ==
        IF n = 0 THEN Int2Num(0) ELSE DoubleAdd(S[n - 1], foods[n].carbs)
  IN  S[Len(foods)]

SumFats(foods) ==
  LET S[n \in 0..Len(foods)] ==
        IF n = 0 THEN Int2Num(0) ELSE DoubleAdd(S[n - 1], foods[n].fats)
  IN  S[Len(foods)]

\* C9: the totals on screen are the sums of the four nutrients over exactly
\* the items now in the meal, and the totals of a saved meal are the sums over
\* the foods saved with it.
C9_TotalsAreSums ==
  /\ mealTotals(amFoods) =
       [calories |-> SumCalories(amFoods), protein |-> SumProtein(amFoods),
        carbs |-> SumCarbs(amFoods), fats |-> SumFats(amFoods)]
  /\ amAdded # NoMeal =>
       /\ amAdded.total_calories = SumCalories(amAdded.foods)
       /\ amAdded.total_protein = SumProtein(amAdded.foods)
       /\ amAdded.total_carbs = SumCarbs(amAdded.foods)
       /\ amAdded.total_fats = SumFats(amAdded.foods)

\* C9 witness: a meal saved with two items in different quantities whose total
\* is more than either item.
C9_Witness ==
  /\ amAdded # NoMeal
  /\ Len(amAdded.foods) = 2
  /\ amAdded.foods[1].quantity # amAdded.foods[2].quantity
  /\ IsFinite(amAdded.total_calories)
  /\ amAdded.total_calories.n > amAdded.foods[1].calories.n
  /\ amAdded.total_calories.n > amAdded.foods[2].calories.n

\* C10: every nutrient of every item of the meal, and every total, is a
\* finite number, whatever quantities were typed, 0 included.
C10_NutrientsStayFinite ==
  /\ \A i \in DOMAIN amFoods :
       /\ IsFinite(amFoods[i].calories) /\ IsFinite(amFoods[i].protein)
       /\ IsFinite(amFoods[i].carbs) /\ IsFinite(amFoods[i].fats)
  /\ IsFinite(mealTotals(amFoods).calories) /\ IsFinite(mealTotals(amFoods).protein)
  /\ IsFinite(mealTotals(amFoods).carbs) /\ IsFinite(mealTotals(amFoods).fats)

(***************************************************************************)
(* Properties of the scaling of nutrients.                                 *)
(***************************************************************************)
\* a and b are finite and differ by at most tn / td
DifferAtMost(a, b, tn, td) ==
  /\ IsFinite(a) /\ IsFinite(b)
  /\ Abs(a.n * b.d - b.n * a.d) * td <= tn * a.d * b.d

\* C11: an item rescaled to 200 g and back to its quantity has calories
\* within 1 and protein, carbs and fats within 0.1 of what it had.
C11_RoundTripWithinTolerance ==
  rsStep = "back" =>
    /\ DifferAtMost(rsItem.calories, rsOriginal.calories, 1, 1)
    /\ DifferAtMost(rsItem.protein, rsOriginal.protein, 1, 10)
    /\ DifferAtMost(rsItem.carbs, rsOriginal.carbs, 1, 10)
    /\ DifferAtMost(rsItem.fats, rsOriginal.fats, 1, 10)

\* the item of foods with identifier id
ItemOf(foods, id) == foods[CHOOSE i \in DOMAIN foods : foods[i].id = id]

\* C12: addFoodToMeal and updateFoodQuantity both take the quantity 100 when
\* the text entered is not a number.
C12_UnparseableQuantityIsHundred ==
  [][/\ (parseFloat(amQuantity) = NaN /\ AMaddFoodToMeal)
          => amFoods'[Len(amFoods')].quantity = Hundred
     /\ \A id \in ItemIds(amFoods) : \A newQty \in QtyTexts :
          (parseFloat(newQty) = NaN /\ AMupdateFoodQuantity(id, newQty))
            => ItemOf(amFoods', id).quantity = Hundred]_vars

\* the value of a numeral with a decimal comma: digits, then possibly a comma
\* and digits
CommaDecimal(text) ==
  LET commas == {i \in DOMAIN text : text[i] = ","}
      whole == IF commas = {} THEN text
               ELSE SubSeq(text, 1, (CHOOSE i \in commas : TRUE) - 1)
      frac == IF commas = {} THEN <<>>
              ELSE SubSeq(text, (CHOOSE i \in commas : TRUE) + 1, Len(text))
      V[n \in 0..Len(text)] ==
        IF n = 0 THEN 0 ELSE 10 * V[n - 1] + DigitVal((whole \o frac)[n])
      P[n \in 0..Len(frac)] == IF n = 0 THEN 1 ELSE 10 * P[n - 1]
  IN  [n |-> V[Len(whole) + Len(frac)], d |-> P[Len(frac)]]

\* r is the whole number nearest to scale * per100 * quantity / 100 (a half
\* goes up), divided by scale
NearestScaled(r, per100, quantity, scale) ==
  LET xn == scale * per100.n * quantity.n
      xd == 100 * per100.d * quantity.d
      w == r.n * scale
  IN  /\ r.k = "num"
      /\ w % r.d = 0
      /\ 2 * (w \div r.d) * xd - 2 * xn <= xd
      /\ 2 * (w \div r.d) * xd - 2 * xn > -xd

\* item is food scaled to the quantity of item
ScaledFrom(item, food) ==
  /\ NearestScaled(item.calories, CommaDecimal(food.caloria), item.quantity, 1)
  /\ NearestScaled(item.protein, CommaDecimal(food.proteina), item.quantity, 10)
  /\ NearestScaled(item.carbs, CommaDecimal(food.carboidrato), item.quantity, 10)
  /\ NearestScaled(item.fats, CommaDecimal(food.gordura), item.quantity, 10)

\* C13: a food added at quantity q becomes an item whose calories are the
\* per-100 g calories times q / 100 rounded to the whole unit and whose
\* protein, carbs and fats are the per-100 g values times q / 100 rounded to
\* the tenth.
C13_AddScalesAndRounds ==
  [][\A food \in RsFoods : \A text \in RsAddTexts :
       RsAdd(food, text) =>
         /\ rsItem'.quantity = Int2Num(CommaDecimal(text).n)
         /\ ScaledFrom(rsItem', food)]_vars

\* C13 witness: per-100 g (124, 2.5, 25.8, 1.0) at 150 g gives
\* (186, 3.8, 38.7, 1.5).
C13_Witness ==
  /\ rsStep = "new"
  /\ rsItem.quantity = Int2Num(150)
  /\ rsItem.calories = Int2Num(186)
  /\ rsItem.protein = Num(38, 10)
  /\ rsItem.carbs = Num(387, 10)
  /\ rsItem.fats = Num(15, 10)

\* r times scale is the whole number nearest to xn / xd (a half goes up)
NearestWhole(r, scale, xn, xd) ==
  /\ r.k = "num"
  /\ (r.n * scale) % r.d = 0
  /\ 2 * ((r.n * scale) \div r.d) * xd - 2 * xn <= xd
  /\ 2 * ((r.n * scale) \div r.d) * xd - 2 * xn > -xd

\* after is before * newQty / oldQty rounded to 1 / scale
\* (a value that is not finite stays so, and Infinity * 0 is NaN)
RescaledFrom(after, before, oldQty, newQty, scale) ==
  IF before.k = "num"
  THEN NearestWhole(after, scale,
                    scale * before.n * newQty.n * oldQty.d,
                    before.d * newQty.d * oldQty.n)
  ELSE IF before = NaN \/ newQty.n = 0 THEN after = NaN ELSE after = before

\* the quantity the last edit of the item asked for
RsAskedQuantity ==
  IF rsStep' = "at200" THEN Int2Num(200) ELSE Int2Num(CommaDecimal(rsQtyText').n)

AllDigits(s) == \A i \in DOMAIN s : IsDigit(s[i])

\* every comma of s made a period
EveryCommaAPeriod(s) == [i \in DOMAIN s |-> IF s[i] = "," THEN "." ELSE s[i]]

\* s is a decimal number: digits, with at most one period among them
IsDecimalNumber(s) ==
  /\ \E i \in DOMAIN s : IsDigit(s[i])
  /\ \E i \in 0..Len(s) :
       /\ AllDigits(SubSeq(s, 1, i))
       /\ \/ i = Len(s)
          \/ s[i + 1] = "." /\ AllDigits(SubSeq(s, i + 2, Len(s)))

\* the digits of s read as a whole number, over the power of ten of the
\* digits after the period
DecimalValue(s) ==
  LET digits == SelectSeq(s, IsDigit)
      after == IF \E i \in DOMAIN s : s[i] = "."
               THEN Len(s) - (CHOOSE i \in DOMAIN s : s[i] = ".")
               ELSE 0
  IN  Num(DigitsValue(digits, 0), Pow10(after))

\* C15: parseBrazilianNumber returns a number for every value: a number
\* unchanged; 0 for null, undefined and the empty string; 0 for a string that
\* is not a valid number; otherwise the value of the string with every comma
\* read as the decimal point.
C15_ParseBrazilianNumber ==
  pbValue # None =>
    /\ pbOut.k \in {"num", "NaN", "Inf"}
    /\ pbValue.type = "number" => pbOut = pbValue.num
    /\ pbValue.type \in {"null", "undefined"} => pbOut = Int2Num(0)
    /\ pbValue.type = "string" =>
         IF pbValue.str = <<>> THEN pbOut = Int2Num(0)
         ELSE IF IsDecimalNumber(EveryCommaAPeriod(pbValue.str))
         THEN pbOut = DecimalValue(EveryCommaAPeriod(pbValue.str))
         ELSE pbOut = Int2Num(0)

\* C16: the totals of no items are all zero, and the totals of an item list
\* are the same for every order of its items.
C16_TotalsIgnoreOrder ==
  mtOut # None =>
    /\ mtFoods = <<>> => mtOut.listed = ZeroTotals
    /\ mtOut.reordered = mtOut.listed

\* C17: an item's identifier is newly generated when the item is added, so a
\* food record can be added several times; the items of the meal have
\* pairwise distinct identifiers in every state; a close that does not save
\* empties the meal and hands no meal to onAdd, and the modal opens again with
\* no items.
C17_FreshIdsAndDiscardOnClose ==
  /\ [](\A i, j \in DOMAIN amFoods : amFoods[i].id = amFoods[j].id => i = j)
  /\ [](~amIsOpen => amFoods = <<>>)
  /\ [][/\ (amIsOpen /\ amSelectedFood # NoFood /\ Len(amFoods') > Len(amFoods))
            => /\ amFoods'[Len(amFoods')].id \notin ItemIds(amFoods)
               /\ SubSeq(amFoods', 1, Len(amFoods)) = amFoods
        /\ (amIsOpen /\ ~amIsOpen')
            => /\ amFoods' = <<>>
               /\ amAdded' # amAdded
                    => (amFoods # <<>> /\ amAdded'.foods = amFoods)
        /\ (~amIsOpen /\ amIsOpen') => amFoods' = <<>>]_vars

\* C17 witness: the same food record twice in the meal, under two identifiers
C17_Witness ==
  /\ Len(amFoods) >= 2
  /\ amFoods[1].name = amFoods[2].name
  /\ amFoods[1].quantity = amFoods[2].quantity
  /\ amFoods[1].id # amFoods[2].id

\* C18: usePageData is single-flight: whatever the order of mount,
\* navigation, userId and dependency changes, visibility, focus and refetch()
\* triggers, at most one fetchData call is in flight.
C18_SingleFlight == Len(upInFlight) <= 1

\* C18 witness: a navigation arrived while a fetch was in flight and started
\* no second one
C18_Witness ==
  /\ ~NoUser(upUserId)
  /\ upLast = [kind |-> "navigation", started |-> FALSE]
  /\ Len(upInFlight) = 1
  /\ upIsFetching

\* the trigger kinds that call handleFetch(false)
NonInitialKinds == {"visible", "focus", "refetch"}

\* C19: a visibility change to visible, a window focus or a refetch() less
\* than MIN_REFETCH_INTERVAL after the start of the last fetch starts no
\* fetch, so a fetch such a trigger starts is at least MIN_REFETCH_INTERVAL
\* after the start of the fetch before it; a visibility change to another
\* state starts no fetch.
C19_MinimumRefetchInterval ==
  [][/\ (upLast' # upLast /\ upLast'.kind \in NonInitialKinds
           /\ upNow - upLastFetchTime < MIN_REFETCH_INTERVAL)
          => (~upLast'.started /\ upInFlight' = upInFlight)
     /\ (upLast'.kind \in NonInitialKinds /\ Len(upInFlight') > Len(upInFlight))
          => /\ upInFlight'[Len(upInFlight')].startedAt - upLastFetchTime
                  >= MIN_REFETCH_INTERVAL
             /\ upLastFetchTime' = upInFlight'[Len(upInFlight')].startedAt
     /\ (upLast' # upLast /\ upLast'.kind \notin (NonInitialKinds \cup
           {"mount", "navigation", "userId", "dependency"}))
          => (~upLast'.started /\ upInFlight' = upInFlight)]_vars

\* C19 witness: a window focus within the interval, with no fetch in flight,
\* started none
C19_Witness ==
  /\ ~NoUser(upUserId)
  /\ upLast = [kind |-> "focus", started |-> FALSE]
  /\ upInFlight = <<>>
  /\ ~upIsFetching
  /\ upNow - upLastFetchTime < MIN_REFETCH_INTERVAL
  /\ upLastFetchTime > 0

\* C20: every mount, every navigation and every change of userId to a
\* defined value starts a fetchData call for that trigger, whatever the time
\* since the last fetch and whether or not a fetch is in flight.
C20_InitialTriggersAlwaysFetch ==
  (upLast.kind \in {"mount", "navigation", "userId"} /\ ~NoUser(upUserId))
    => upLast.started

\* C21: isInitialLoading is true from mount until the first fetch settles or
\* userId is found undefined; it is false once a fetch has settled, resolved
\* or rejected, and after the first fetch has settled no fetch, trigger or
\* userId change sets it back to true.
C21_LoadingOnlyOnInitialLoad ==
  /\ [](upLast = NoTrigger => upIsInitialLoading)
  /\ [](upIsMounted => ~upIsInitialLoading)
  /\ [][/\ Len(upInFlight') < Len(upInFlight)
             => (upIsMounted' /\ ~upIsInitialLoading')
        /\ (upIsInitialLoading /\ ~upIsInitialLoading')
             => (Len(upInFlight') < Len(upInFlight) \/ NoUser(upUserId'))
        /\ (~upIsInitialLoading /\ upIsInitialLoading')
             => (~upIsMounted /\ Len(upInFlight') > Len(upInFlight))]_vars

\* C21 witness: a fetch after the first one is in flight and the loading
\* state is not shown
C21_Witness ==
  /\ upIsMounted
  /\ upIsFetching
  /\ Len(upInFlight) = 1
  /\ upLast.started
  /\ ~upIsInitialLoading

\* text is name with white space before and after it, and name has none at
\* either end
IsTrimOf(name, text) ==
  /\ name # <<>> => (~IsSpace(name[1]) /\ ~IsSpace(name[Len(name)]))
  /\ \E i \in 0..Len(text) :
       /\ i + Len(name) <= Len(text)
       /\ SubSeq(text, i + 1, i + Len(name)) = name
       /\ \A j \in 1..i : IsSpace(text[j])
       /\ \A j \in (i + Len(name) + 1)..Len(text) : IsSpace(text[j])

NumericFields == {"caloria", "proteina", "carboidrato", "fibra", "gordura"}

\* the update and insert requests in flight
WritesInFlight(requests) ==
  {i \in DOMAIN requests : requests[i].op \in {"update", "insert"}}

\* C22: every update or insert request handleSubmit sends carries the trimmed
\* name, which is not empty, and for each numeric field the entered text, or
\* "0" for an empty field; it is an update of the record being edited, by its
\* id, or an insert when none is; a submit with a name that trims to nothing
\* sends no request and leaves the form state as it was.
C22_SubmitSendsWellFormedFields ==
  /\ [](\A i \in WritesInFlight(flInFlight) :
          /\ flInFlight[i].data.alimento # <<>>
          /\ \A f \in NumericFields : flInFlight[i].data[f] # <<>>)
  /\ [][WritesInFlight(flInFlight') # {} =>
          \/ Len(flInFlight') > Len(flInFlight)
          \/ \E i \in WritesInFlight(flInFlight) :
               flInFlight[i] \in {flInFlight'[j] : j \in WritesInFlight(flInFlight')}]_vars
  /\ [][/\ \A i \in WritesInFlight(flInFlight') :
             (i = Len(flInFlight') /\ Len(flInFlight') > Len(flInFlight)) =>
               /\ IsTrimOf(flInFlight'[i].data.alimento, flFormData.alimento)
               /\ \A f \in NumericFields :
                    flInFlight'[i].data[f] =
                      IF flFormData[f] = <<>> THEN <<"0">> ELSE flFormData[f]
               /\ IF flEditingFood # NoFood
                  THEN flInFlight'[i].op = "update"
                       /\ flInFlight'[i].id = flEditingFood.id
                  ELSE flInFlight'[i].op = "insert"
        /\ (FLhandleSubmit /\ IsTrimOf(<<>>, flFormData.alimento))
             => UNCHANGED <<flInFlight, flFormData, flEditingFood, flShowModal,
                            flSaving, flFoods, flLoading>>]_vars

\* C22 witness: the record of id 8, name " a" and no calories sent as an
\* update with the name "a" and calories "0"
C22_Witness ==
  \E i \in WritesInFlight(flInFlight) :
    /\ flInFlight[i].op = "update"
    /\ flInFlight[i].id = 8
    /\ flInFlight[i].data.alimento = <<"a">>
    /\ flInFlight[i].data.caloria = <<"0">>
    /\ flInFlight[i].data.carboidrato = <<"7">>

\* the query holds nothing but spaces and commas
OnlySeparators(query) == \A i \in DOMAIN query : query[i] \in {" ", ","}

\* C23: a search that goes on to match has a word list that is not empty; a
\* query of two or more spaces and commas does not match every candidate.
C23_MatchingHasWords ==
  /\ fnFS.applied =>
       /\ FSsearchWords(fnQuery) # <<>>
       /\ (OnlySeparators(fnQuery) /\ fnData # <<>>) => Len(fnFS.ranked) < Len(fnData)
  /\ fnAM.applied =>
       /\ AMsearchWords(fnQuery) # <<>>
       /\ (OnlySeparators(fnQuery) /\ fnData # <<>>) => Len(fnAM.ranked) < Len(fnData)

\* loading is on while the newest fetch, issued for the text now in the input,
\* is pending, and off when no fetch is pending
LoadingTracksFetches(loading, pending, term) ==
  /\ (\E i \in DOMAIN pending : ~pending[i].superseded /\ pending[i].term = term)
       => loading
  /\ pending = <<>> => ~loading

\* C24: in FoodSelect and in AddExtraMealModal the loading flag is never false
\* while a fetch for the latest query is pending, and it is false once every
\* fetch issued has settled, with rows, an error result or an exception.
C24_LoadingWhileFetching ==
  /\ LoadingTracksFetches(fsLoading, fsPending, fsSearchTerm)
  /\ LoadingTracksFetches(amLoading, amPending, amSearchTerm)

\* the half of the property on AddExtraMealModal
LoadingTracksFetchesInModal ==
  LoadingTracksFetches(amLoading, amPending, amSearchTerm)

\* after is before without its item at position k
WithoutItemAt(after, before, k) ==
  /\ Len(after) = Len(before) - 1
  /\ \A i \in 1..(k - 1) : after[i] = before[i]
  /\ \A i \in k..Len(after) : after[i] = before[i + 1]

InitialKinds == {"mount", "navigation", "userId", "dependency"}

\* C26: when fetchData has settled, resolved or rejected, isFetching is false,
\* and a later trigger that passes the interval check then starts a fetch;
\* while userId is undefined no trigger calls fetchData.
C26_GuardReleasedAndNoUserNoFetch ==
  /\ [](upInFlight = <<>> => ~upIsFetching)
  /\ [](\A i \in DOMAIN upInFlight : ~NoUser(upInFlight[i].userId))
  /\ [][/\ Len(upInFlight') < Len(upInFlight) => ~upIsFetching'
        /\ (/\ upLast' # upLast
            /\ upInFlight = <<>>
            /\ ~NoUser(upUserId')
            /\ \/ upLast'.kind \in InitialKinds
               \/ /\ upLast'.kind \in NonInitialKinds
                  /\ upNow - upLastFetchTime >= MIN_REFETCH_INTERVAL)
             => (upLast'.started /\ Len(upInFlight') = 1)
        /\ NoUser(upUserId') => Len(upInFlight') <= Len(upInFlight)]_vars

\* C26 witness: after the first fetch settled, a refetch() has started
\* another
C26_Witness ==
  /\ upIsMounted
  /\ upLast = [kind |-> "refetch", started |-> TRUE]
  /\ Len(upInFlight) = 1
  /\ upInFlight[1].startedAt = upLastFetchTime

\* texts typed while the highlighted index is followed: none, one word and
\* two words
TypedHighlight == {<<>>, <<"a", "b">>, <<"b", " ", "a">>}

InitHighlight == FnIdle /\ FSInit /\ AMInit /\ PfIdle /\ UPIdle /\ FLInit

\* FoodSelect with every handler, typing the texts of TypedHighlight
NextHighlight ==
  \/ \E newValue \in TypedHighlight : FShandleInputChange(newValue)
       /\ UNCHANGED <<fnVars, amVars, pfVars, upVars, flVars>>
  \/ FSsearchFoods /\ UNCHANGED <<fnVars, amVars, pfVars, upVars, flVars>>
  \/ \E i \in DOMAIN fsPending : \E data \in Tables :
       FSfetchData(i, data) /\ UNCHANGED <<fnVars, amVars, pfVars, upVars, flVars>>
  \/ \E i \in DOMAIN fsPending : FSfetchError(i)
       /\ UNCHANGED <<fnVars, amVars, pfVars, upVars, flVars>>
  \/ \E i \in DOMAIN fsPending : FSfetchThrows(i)
       /\ UNCHANGED <<fnVars, amVars, pfVars, upVars, flVars>>
  \/ \E index \in 0..(Len(fsFoods) - 1) :
       FShandleFoodSelect(index) /\ UNCHANGED <<fnVars, amVars, pfVars, upVars, flVars>>
  \/ FShandleClear /\ UNCHANGED <<fnVars, amVars, pfVars, upVars, flVars>>
  \/ \E key \in Keys : FShandleKeyDown(key) /\ UNCHANGED <<fnVars, amVars, pfVars, upVars, flVars>>
  \/ \E index \in 0..(Len(fsFoods) - 1) :
       FSmouseEnter(index) /\ UNCHANGED <<fnVars, amVars, pfVars, upVars, flVars>>
  \/ FShandleClickOutside /\ UNCHANGED <<fnVars, amVars, pfVars, upVars, flVars>>
  \/ FSonFocus /\ UNCHANGED <<fnVars, amVars, pfVars, upVars, flVars>>
  \/ Tick

SpecHighlight == InitHighlight /\ [][NextHighlight]_vars

\* C27: while the result list of FoodSelect is not empty the highlighted index
\* is one of its indices, and a step that selects a food selects one of the
\* list as it is then, the highlighted one when the list is not on screen to
\* be clicked.
C27_HighlightedIndexInList ==
  /\ [](Len(fsFoods) > 0 =>
          (0 <= fsHighlightedIndex /\ fsHighlightedIndex < Len(fsFoods)))
  /\ [][(fsSelectedFood' # NoFood /\ fsSelectedFood' # fsSelectedFood) =>
          /\ fsIsOpen
          /\ \E k \in DOMAIN fsFoods : fsFoods[k] = fsSelectedFood'
          /\ ~FSlistShown => fsSelectedFood' = fsFoods[fsHighlightedIndex + 1]
          /\ fsFoods' = fsFoods]_vars

\* C27 witness: the last of several results is highlighted, as ArrowDown
\* leaves it
C27_Witness ==
  /\ fsIsOpen
  /\ Len(fsFoods) > 1
  /\ fsHighlightedIndex = Len(fsFoods) - 1
  /\ fsSelectedFood = fsFoods[Len(fsFoods)]

\* C28: the collection of the meal only grows with a food selected, by one
\* item put after the others, which stay as they were, and that step resets
\* the selection, the search text and the quantity input to "100"; a selected
\* food and a non-empty result list are never there together.
C28_AddOneAndSelectionHidesResults ==
  /\ [](amSelectedFood # NoFood => amSearchResults = <<>>)
  /\ [][Len(amFoods') > Len(amFoods) =>
          /\ amSelectedFood # NoFood
          /\ Len(amFoods') = Len(amFoods) + 1
          /\ SubSeq(amFoods', 1, Len(amFoods)) = amFoods
          /\ amSelectedFood' = NoFood
          /\ amSearchTerm' = <<>>
          /\ amQuantity' = DefaultQuantity]_vars

====
